---- MODULE Spec2Model ----
(***************************************************************************)
(* Request-governance layer of the crypto MCP server: the sliding-window   *)
(* rate limiter of crypto_mcp_server/rate_limiter.py, the cache manager,   *)
(* key builder and memoizing wrapper of crypto_mcp_server/cache.py, and    *)
(* the tool handlers of crypto_mcp_server/server.py with the provider      *)
(* operations of crypto_mcp_server/exchange.py they call.                  *)
(*                                                                         *)
(* Time is a discrete monotonic clock `now`; every time.time() call of the *)
(* source reads it.  record_request reads the clock twice (once inside     *)
(* check_limit, once for the timestamp it appends), so the appended value  *)
(* may be later than the value the purge was done with.                    *)
(*                                                                         *)
(* The store behind CacheManager is cachetools.TTLCache, a library that is *)
(* not part of the repository.  It is modelled by its contract: an entry   *)
(* lives while timer() < set time + ttl, expired entries are swept on      *)
(* every write and size query, a write into a full store evicts the least  *)
(* recently used entry, and a successful read marks the entry as most      *)
(* recently used.  Each store operation reads the clock once.              *)
(***************************************************************************)
EXTENDS Integers, Sequences, FiniteSets, TLC

\* ---------------------------------------------------------------- bounds
\* Last clock value explored.
MaxTime == 6
\* Largest clock advance between the two time.time() reads of record_request.
MaxDelta == 1
\* RateLimiter(max_requests, time_window): constructor arguments, scaled down.
max_requests == 2
time_window == 2

\* CacheManager(maxsize, ttl): constructor arguments, scaled down.
max_size == 2
ttl == 2
\* Largest number of CacheManager.get calls explored.
MaxGets == 2
\* Last clock value explored by the cache specification.
MaxCacheTime == 3
\* Largest value of a counter the statistics are computed from.
MaxCount == 5
\* Largest number of positional arguments given to build_key.
MaxArgs == 2
\* Last clock value of the dispatcher specification.
MaxDispTime == 2
\* Largest number of calls in which the underlying store raises.
MaxErrors == 1

\* Rate-limit keys (exchange names in production, "key1"/"key2" in the tests).
Keys == {"key1", "key2"}
\* Execution contexts of the concurrent specification.
Threads == {"T1", "T2"}
\* Cache keys.
CKeys == {"a", "b", "c"}
\* Python's None: the value of an absent key and a value a fetch may return.
NoneVal == "None"
\* Cached values other than None.
Values == {"v1"}
\* Errors a wrapped fetch may raise.
FetchErrors == {"DataFetchError", "InvalidSymbolError"}
\* Clock ticks a wrapped fetch may take.
FetchTimes == {0, 1}

VARIABLES
    now,        \* the clock
    requests,   \* RateLimiter._requests: key -> deque of timestamps
    lastOp,     \* name of the operation performed by the last step
    lastKey,    \* its key argument ("" when it has none)
    raised,     \* TRUE iff the last operation raised RateLimitError
    retBool,    \* value returned by the last step when it was check_limit
    retInt,     \* value returned by the last step when it was
                \* get_remaining_requests
    beforeLen,  \* length of lastKey's window before the last operation; for
                \* a cache operation, the number of live entries before it
    admitted,   \* per key: the timestamps admitted since the key's last
                \* reset that are not older than now - time_window
    pc,         \* per thread: position inside record_request; per caller of
                \* the asynchronous wrapper: position inside the wrapper
    tkey,       \* per thread: the key argument of its record_request; per
                \* caller of the asynchronous wrapper: its symbol argument
    cache,      \* CacheManager._cache: the entries [key, value, expires] of
                \* the TTLCache, least recently used first
    stats,      \* CacheManager._stats
    getCalls,   \* number of CacheManager.get calls made so far
    held,       \* per cache key: [value, at] of the last set not overwritten,
                \* deleted, cleared, evicted or older than ttl since; or NoSet
    retVal,     \* value returned by the last step when it was a cache get
                \* or a wrapped call
    fetched,    \* TRUE iff the last step invoked the wrapped fetch
    evicted,    \* keys of the live entries the last step evicted to make room
    errOut,     \* error the last step raised to its caller, "" when none
    statsRet,   \* mapping returned by the last step when it was get_stats
    bkArgs,     \* build_key: the positional arguments
    bkNamed,    \* build_key: the named arguments, name -> value
    bkOrder,    \* build_key: the order the last call supplied the names in
    keyOut,     \* build_key: the string the last call returned
    exchanges,  \* ExchangeConnector._exchanges: names holding a provider
    upCalls,    \* upstream network calls the last step made
    built,      \* TRUE iff the last step constructed a provider object
    toolOut,    \* label of the text the last tool call returned, "" when
                \* the last step was no tool call
    setLog,     \* keys of the last sets of an uninterrupted run of sets, in
                \* the order the sets were made, oldest first
    overlap,    \* per caller of the asynchronous wrapper: TRUE iff, while its
                \* fetch is in flight, the fetch of another caller for the
                \* same key was in flight too
    snapshot    \* the mapping a caller of get_stats keeps from its last
                \* call, NoStats while it keeps none

cacheVars == <<cache, stats, getCalls, held, retVal, fetched, evicted,
               errOut, statsRet>>

keyVars == <<bkArgs, bkNamed, bkOrder, keyOut>>

dispVars == <<exchanges, upCalls, built, toolOut>>

vars == <<now, requests, lastOp, lastKey, raised, retBool, retInt, beforeLen,
          admitted, pc, tkey, cacheVars, keyVars, dispVars, setLog,
          overlap, snapshot>>

\* ------------------------------------------------------- pure functions

\* self._requests.get(key, deque()) as a sequence.
Window(reqs, k) == IF k \in DOMAIN reqs THEN reqs[k] ELSE <<>>

\* Faulty variants of IsOld: a timestamp exactly time_window old is purged
\* too (IsOld_Leq); a timestamp is kept one tick too long (IsOld_Late).
IsOld_Leq(ts, current_time) == ts <= current_time - time_window
IsOld_Late(ts, current_time) == ts < current_time - time_window - 1

\* The loop condition of _clean_old_requests: the timestamp is outside the
\* window.
IsOld(ts, current_time) == ts < current_time - time_window

\* The popleft loop of _clean_old_requests on one deque.
RECURSIVE PopOld(_, _)
PopOld(q, current_time) ==
    IF q # <<>> /\ IsOld(Head(q), current_time)
    THEN PopOld(Tail(q), current_time)
    ELSE q

\* _clean_old_requests(key, current_time) on the whole dict.
clean_old_requests(reqs, k, current_time) ==
    IF k \in DOMAIN reqs
    THEN [reqs EXCEPT ![k] = PopOld(@, current_time)]
    ELSE reqs

\* "if key not in self._requests: self._requests[key] = deque()"
EnsureKey(reqs, k) ==
    IF k \in DOMAIN reqs THEN reqs ELSE reqs @@ (k :> <<>>)

\* Faulty variant of WithinLimit: off by one, a full window still admits.
WithinLimit_Leq(n) == n <= max_requests

\* The admission test "len(self._requests[key]) < self.max_requests".
WithinLimit(n) == n < max_requests

\* Faulty variant of CheckLimitState: the check itself records a request.
CheckLimitState_Records(reqs, k, current_time) ==
    [clean_old_requests(EnsureKey(reqs, k), k, current_time)
        EXCEPT ![k] = Append(@, current_time)]

\* The dict left behind by check_limit(key) run at current_time.
CheckLimitState(reqs, k, current_time) ==
    clean_old_requests(EnsureKey(reqs, k), k, current_time)

\* The value check_limit(key) returns.
CheckLimitResult(reqs, k, current_time) ==
    WithinLimit(Len(CheckLimitState(reqs, k, current_time)[k]))

\* Faulty variant of RejectedState: the timestamp is appended before the
\* limit is tested, so a rejected attempt is recorded as well.
RejectedState_Appends(reqs, k, current_time) ==
    [clean_old_requests(EnsureKey(reqs, k), k, current_time)
        EXCEPT ![k] = Append(@, current_time)]

\* The dict left behind by a record_request that raises RateLimitError.
RejectedState(reqs, k, current_time) ==
    CheckLimitState(reqs, k, current_time)

\* Faulty variant of AdmittedState: the new timestamp is put at the left end
\* of the deque instead of the right end.
AdmittedState_Prepends(reqs, k, check_time, append_time) ==
    [EnsureKey(CheckLimitState(reqs, k, check_time), k)
        EXCEPT ![k] = <<append_time>> \o @]

\* The dict left behind by an admitted record_request: check_limit ran at
\* check_time, the timestamp appended is append_time.
AdmittedState(reqs, k, check_time, append_time) ==
    [EnsureKey(CheckLimitState(reqs, k, check_time), k)
        EXCEPT ![k] = Append(@, append_time)]

Max(a, b) == IF a >= b THEN a ELSE b

\* Faulty variant of RemainingValue: the stale timestamps are not purged
\* before counting.
RemainingValue_NoPurge(reqs, k, current_time) ==
    IF k \notin DOMAIN reqs THEN max_requests
    ELSE Max(0, max_requests - Len(reqs[k]))

\* The dict left behind by get_remaining_requests(key).
RemainingState(reqs, k, current_time) ==
    IF k \notin DOMAIN reqs THEN reqs
    ELSE clean_old_requests(reqs, k, current_time)

\* The value get_remaining_requests(key) returns.
RemainingValue(reqs, k, current_time) ==
    IF k \notin DOMAIN reqs THEN max_requests
    ELSE Max(0, max_requests
                  - Len(clean_old_requests(reqs, k, current_time)[k]))

\* Faulty variants of ResetState: every key's window is cleared
\* (ResetState_All); only the oldest timestamp is dropped (ResetState_PopOne).
ResetState_All(reqs, k) == [x \in DOMAIN reqs |-> <<>>]
ResetState_PopOne(reqs, k) ==
    IF k \in DOMAIN reqs /\ reqs[k] # <<>>
    THEN [reqs EXCEPT ![k] = Tail(@)]
    ELSE reqs

\* The dict left behind by reset(key).
ResetState(reqs, k) ==
    IF k \in DOMAIN reqs THEN [reqs EXCEPT ![k] = <<>>] ELSE reqs

\* The dict left behind by reset_all(): self._requests.clear().
ResetAllState(reqs) == <<>>

\* The admission log of every key at clock value t: an admission older than
\* t - time_window shares no trailing interval [u - time_window, u] with an
\* admission made at t or later, and is dropped from the log.
Trim(adm, t) ==
    [k \in Keys |-> SelectSeq(adm[k], LAMBDA ts : ts >= t - time_window)]

\* ------------------------------------------------- cache: pure functions

\* Faulty variant of NotExpired: an entry is still served at its expiry time.
NotExpired_Leq(expires, time) == time <= expires

\* The liveness test of TTLCache: "timer() < link.expires".
NotExpired(expires, time) == time < expires

\* TTLCache.expire(time): drop every entry that is no longer live.
Expire(c, time) == SelectSeq(c, LAMBDA e : NotExpired(e.expires, time))

\* Position of key k in the store, 0 when it has none.
IndexOf(c, k) ==
    IF \E i \in 1..Len(c) : c[i].key = k
    THEN CHOOSE i \in 1..Len(c) : c[i].key = k
    ELSE 0

\* The store without the entry of key k.
Without(c, k) == SelectSeq(c, LAMBDA e : e.key # k)

\* TTLCache.__contains__: the key has an entry and the entry is live.
Contains(c, k, time) ==
    IndexOf(c, k) # 0 /\ NotExpired(c[IndexOf(c, k)].expires, time)

\* Faulty variant of NeedsRoom: off by one, a full store takes one more.
NeedsRoom_Late(n) == n > max_size

\* The eviction test of Cache.__setitem__ for an entry of size 1 written
\* into a store of n entries: "self.__currsize + size > maxsize".
NeedsRoom(n) == n + 1 > max_size

\* Faulty variant of PopItem: the most recently used entry is removed.
PopItem_Newest(c) == SubSeq(c, 1, Len(c) - 1)

\* TTLCache.popitem on a store swept of its expired entries: the least
\* recently used entry is removed.
PopItem(c) == Tail(c)

\* Cache.__setitem__ on a key the store does not hold: "while currsize +
\* size > maxsize: popitem()".
RECURSIVE MakeRoom(_)
MakeRoom(c) ==
    IF NeedsRoom(Len(c)) /\ c # <<>> THEN MakeRoom(PopItem(c)) ELSE c

\* The expiry time given to an entry written at `time`.
ExpiresAt(time) == time + ttl

\* Faulty variant of SetItem: room is made for every write, a write to a key
\* the store holds included.
SetItem_AlwaysMakesRoom(c, k, v, time) ==
    LET swept == Expire(c, time)
    IN  Append(Without(MakeRoom(swept), k),
               [key |-> k, value |-> v, expires |-> ExpiresAt(time)])

\* TTLCache.__setitem__(key, value) at `time`: sweep the expired entries,
\* make room when the key is new, store the value, move the key to the most
\* recently used end and restart its lifetime.
SetItem(c, k, v, time) ==
    LET swept == Expire(c, time)
        kept == IF IndexOf(swept, k) # 0
                THEN Without(swept, k)
                ELSE MakeRoom(swept)
    IN  Append(kept, [key |-> k, value |-> v, expires |-> ExpiresAt(time)])

\* The store after TTLCache.get(key) at `time`: a live entry read through
\* __getitem__ becomes the most recently used one; nothing else changes.
GetItemState(c, k, time) ==
    IF Contains(c, k, time)
    THEN Append(Without(c, k), c[IndexOf(c, k)])
    ELSE c

\* The value TTLCache.get(key) returns at `time`: the value of a live entry,
\* None otherwise.
GetItemValue(c, k, time) ==
    IF Contains(c, k, time) THEN c[IndexOf(c, k)].value ELSE NoneVal

\* Faulty variant of DeleteState: the delete empties the store.
DeleteState_All(c, k, time) == <<>>

\* CacheManager.delete: "if key in self._cache: del self._cache[key]".
DeleteState(c, k, time) ==
    IF Contains(c, k, time) THEN Without(c, k) ELSE c

\* Faulty variant of ClearState: the newest entry survives the clear.
ClearState_KeepsNewest(c) == IF c = <<>> THEN c ELSE <<c[Len(c)]>>

\* CacheManager.clear: self._cache.clear().
ClearState(c) == <<>>

\* len(self._cache): the expired entries are swept, the rest counted.
CurrentSize(c, time) == Len(Expire(c, time))

\* Faulty variant of CountGet: a miss is not counted.
CountGet_HitsOnly(st, value) ==
    IF value # NoneVal THEN [st EXCEPT !.hits = @ + 1] ELSE st

\* Faulty variant of CountGet: a miss starts the count of hits again.
CountGet_MissResetsHits(st, value) ==
    IF value # NoneVal
    THEN [st EXCEPT !.hits = @ + 1]
    ELSE [st EXCEPT !.misses = @ + 1, !.hits = 0]

\* CacheManager.get, lines 43-48: a value that is not None is a hit, None
\* is a miss.
CountGet(st, value) ==
    IF value # NoneVal
    THEN [st EXCEPT !.hits = @ + 1]
    ELSE [st EXCEPT !.misses = @ + 1]

\* Python's round(n / d, 0) for integers n >= 0, d > 0: the nearest
\* integer, a tie going to the even one.
RoundHalfEven(n, d) ==
    LET q == n \div d
        r == n % d
    IN  IF 2 * r < d THEN q
        ELSE IF 2 * r > d THEN q + 1
        ELSE IF q % 2 = 0 THEN q ELSE q + 1

\* Faulty variant of HitRateX100: the rate is cut to two decimals.
HitRateX100_Truncated(hits, total) ==
    IF total > 0 THEN (hits * 10000) \div total ELSE 0

\* get_stats, lines 105-107 and 114: round(hits / total * 100, 2) when
\* total > 0 and 0 otherwise, in hundredths of a percent.
HitRateX100(hits, total) ==
    IF total > 0 THEN RoundHalfEven(hits * 10000, total) ELSE 0

\* The mapping get_stats returns.
StatsMapping(st, c, time) ==
    [hits |-> st.hits,
     misses |-> st.misses,
     errors |-> st.errors,
     total_requests |-> st.hits + st.misses,
     hit_rate_x100 |-> HitRateX100(st.hits, st.hits + st.misses),
     current_size |-> CurrentSize(c, time),
     max_size |-> max_size]

\* statsRet when the last step returned no statistics.
NoStats ==
    [hits |-> -1, misses |-> -1, errors |-> -1, total_requests |-> -1,
     hit_rate_x100 |-> -1, current_size |-> -1, max_size |-> -1]

\* held[k] when key k holds no set value.
NoSet == [value |-> NoneVal, at |-> -1]

\* The record of the values set: a key the store no longer holds, or whose
\* set is ttl old at `time`, holds none.
HeldAfter(lv, c, time) ==
    [k \in CKeys |->
        IF IndexOf(c, k) = 0 \/ lv[k].at < 0 \/ time >= lv[k].at + ttl
        THEN NoSet
        ELSE lv[k]]

\* ------------------------------------------------------------------ Init

Init ==
    /\ now = 0
    /\ requests = <<>>
    /\ lastOp = "init"
    /\ lastKey = ""
    /\ raised = FALSE
    /\ retBool = FALSE
    /\ retInt = 0
    /\ beforeLen = 0
    /\ admitted = [k \in Keys |-> <<>>]
    /\ pc = [t \in Threads |-> "idle"]
    /\ tkey = [t \in Threads |-> "key1"]
    /\ cache = <<>>
    /\ stats = [hits |-> 0, misses |-> 0, errors |-> 0]
    /\ getCalls = 0
    /\ held = [k \in CKeys |-> NoSet]
    /\ retVal = NoneVal
    /\ fetched = FALSE
    /\ evicted = {}
    /\ errOut = ""
    /\ statsRet = NoStats
    /\ bkArgs = <<>>
    /\ bkNamed = <<>>
    /\ bkOrder = <<>>
    /\ keyOut = <<>>
    /\ exchanges = {}
    /\ upCalls = 0
    /\ built = FALSE
    /\ toolOut = ""
    /\ setLog = <<>>
    /\ overlap = [t \in Threads |-> FALSE]
    /\ snapshot = NoStats

\* --------------------------------------------------------------- actions

\* Time passes.
Tick ==
    /\ now < MaxTime
    /\ now' = now + 1
    /\ lastOp' = "tick"
    /\ lastKey' = ""
    /\ raised' = FALSE
    /\ retBool' = FALSE
    /\ retInt' = 0
    /\ beforeLen' = 0
    /\ admitted' = Trim(admitted, now + 1)
    /\ held' = HeldAfter(held, cache, now + 1)
    /\ retVal' = NoneVal
    /\ fetched' = FALSE
    /\ evicted' = {}
    /\ errOut' = ""
    /\ statsRet' = NoStats
    /\ UNCHANGED <<requests, pc, tkey, cache, stats, getCalls, keyVars,
                   setLog, overlap, snapshot,
                 dispVars>>

check_limit(k) ==
    /\ requests' = CheckLimitState(requests, k, now)
    /\ retBool' = CheckLimitResult(requests, k, now)
    /\ lastOp' = "check_limit"
    /\ lastKey' = k
    /\ raised' = FALSE
    /\ retInt' = 0
    /\ beforeLen' = Len(Window(requests, k))
    /\ UNCHANGED <<now, admitted, pc, tkey, cacheVars, keyVars,
                   setLog, overlap, snapshot,
                 dispVars>>

record_request(k) ==
    /\ lastOp' = "record_request"
    /\ lastKey' = k
    /\ beforeLen' = Len(Window(requests, k))
    /\ retBool' = FALSE
    /\ retInt' = 0
    /\ IF ~CheckLimitResult(requests, k, now)
       THEN /\ raised' = TRUE
            /\ requests' = RejectedState(requests, k, now)
            /\ UNCHANGED <<now, admitted>>
       ELSE /\ raised' = FALSE
            /\ \E d \in 0..MaxDelta :
                 /\ now + d <= MaxTime
                 /\ now' = now + d
                 /\ requests' = AdmittedState(requests, k, now, now + d)
                 /\ admitted' = Trim([admitted EXCEPT
                                           ![k] = Append(@, now + d)],
                                      now + d)
    /\ UNCHANGED <<pc, tkey, cacheVars, keyVars, setLog, overlap, snapshot,
                 dispVars>>

get_remaining_requests(k) ==
    /\ requests' = RemainingState(requests, k, now)
    /\ retInt' = RemainingValue(requests, k, now)
    /\ lastOp' = "get_remaining_requests"
    /\ lastKey' = k
    /\ raised' = FALSE
    /\ retBool' = FALSE
    /\ beforeLen' = Len(Window(requests, k))
    /\ UNCHANGED <<now, admitted, pc, tkey, cacheVars, keyVars,
                   setLog, overlap, snapshot,
                 dispVars>>

reset(k) ==
    /\ requests' = ResetState(requests, k)
    /\ lastOp' = "reset"
    /\ lastKey' = k
    /\ raised' = FALSE
    /\ retBool' = FALSE
    /\ retInt' = 0
    /\ beforeLen' = Len(Window(requests, k))
    /\ admitted' = [admitted EXCEPT ![k] = <<>>]
    /\ UNCHANGED <<now, pc, tkey, cacheVars, keyVars,
                   setLog, overlap, snapshot,
                 dispVars>>

reset_all ==
    /\ requests' = ResetAllState(requests)
    /\ lastOp' = "reset_all"
    /\ lastKey' = ""
    /\ raised' = FALSE
    /\ retBool' = FALSE
    /\ retInt' = 0
    /\ beforeLen' = 0
    /\ admitted' = [k \in Keys |-> <<>>]
    /\ UNCHANGED <<now, pc, tkey, cacheVars, keyVars,
                   setLog, overlap, snapshot,
                 dispVars>>

Next ==
    \/ Tick
    \/ \E k \in Keys : check_limit(k)
    \/ \E k \in Keys : record_request(k)
    \/ \E k \in Keys : get_remaining_requests(k)
    \/ \E k \in Keys : reset(k)
    \/ reset_all

Spec == Init /\ [][Next]_vars

\* ------------------------------------------- concurrent record_request
\* Two execution contexts run record_request with no synchronisation (the
\* class holds no lock): the admission check and the append are separate
\* steps, and the steps of the other context may run in between.

\* Lines 71-77: "if not self.check_limit(key): raise RateLimitError".
ConcCheck(t, k) ==
    /\ pc[t] = "idle"
    /\ requests' = CheckLimitState(requests, k, now)
    /\ lastKey' = k
    /\ beforeLen' = Len(Window(requests, k))
    /\ IF ~CheckLimitResult(requests, k, now)
       THEN /\ raised' = TRUE
            /\ lastOp' = "record_request"
            /\ UNCHANGED <<pc, tkey>>
       ELSE /\ raised' = FALSE
            /\ lastOp' = "admission_check"
            /\ pc' = [pc EXCEPT ![t] = "checked"]
            /\ tkey' = [tkey EXCEPT ![t] = k]
    /\ UNCHANGED <<now, retBool, retInt, admitted, cacheVars, keyVars,
                   setLog, overlap, snapshot,
                 dispVars>>

\* Lines 79-83: read the clock, re-create the key if missing, append.
ConcAppend(t) ==
    /\ pc[t] = "checked"
    /\ requests' = [EnsureKey(requests, tkey[t])
                       EXCEPT ![tkey[t]] = Append(@, now)]
    /\ admitted' = [admitted EXCEPT ![tkey[t]] = Append(@, now)]
    /\ pc' = [pc EXCEPT ![t] = "idle"]
    /\ lastOp' = "record_request"
    /\ lastKey' = tkey[t]
    /\ raised' = FALSE
    /\ beforeLen' = Len(Window(requests, tkey[t]))
    /\ UNCHANGED <<now, retBool, retInt, tkey, cacheVars, keyVars,
                   setLog, overlap, snapshot,
                 dispVars>>

NextConc ==
    \/ Tick
    \/ \E t \in Threads : \E k \in Keys : ConcCheck(t, k)
    \/ \E t \in Threads : ConcAppend(t)

SpecConc == Init /\ [][NextConc]_vars

\* ------------------------------------------------- cache manager actions

\* What the cache operations leave alone in the rate limiter.
rlFrame == <<requests, raised, retBool, retInt, admitted, pc, tkey>>

\* Keys of the entries of c.
KeysOf(c) == {c[i].key : i \in 1..Len(c)}

\* Keys a write of key k at `time` evicts: live before, gone after, not k.
EvictedBy(c, k, time) ==
    (KeysOf(Expire(c, time)) \ KeysOf(SetItem(c, k, NoneVal, time))) \ {k}

\* CacheManager.get(key).
cache_get(k) ==
    /\ getCalls < MaxGets
    /\ cache' = GetItemState(cache, k, now)
    /\ retVal' = GetItemValue(cache, k, now)
    /\ stats' = CountGet(stats, GetItemValue(cache, k, now))
    /\ getCalls' = getCalls + 1
    /\ held' = HeldAfter(held, GetItemState(cache, k, now), now)
    /\ lastOp' = "cache_get"
    /\ lastKey' = k
    /\ beforeLen' = CurrentSize(cache, now)
    /\ fetched' = FALSE
    /\ evicted' = {}
    /\ errOut' = ""
    /\ statsRet' = NoStats
    /\ UNCHANGED <<now, rlFrame, keyVars, setLog, overlap, snapshot, dispVars>>

\* CacheManager.set(key, value), the run log apart.
SetStep(k, v) ==
    /\ cache' = SetItem(cache, k, v, now)
    /\ held' = HeldAfter([held EXCEPT ![k] = [value |-> v, at |-> now]],
                         SetItem(cache, k, v, now), now)
    /\ lastOp' = "cache_set"
    /\ lastKey' = k
    /\ beforeLen' = CurrentSize(cache, now)
    /\ retVal' = NoneVal
    /\ fetched' = FALSE
    /\ evicted' = EvictedBy(cache, k, now)
    /\ errOut' = ""
    /\ statsRet' = NoStats
    /\ UNCHANGED <<now, rlFrame, stats, getCalls, keyVars, dispVars, overlap,
                   snapshot>>

\* CacheManager.set(key, value).
cache_set(k, v) == SetStep(k, v) /\ UNCHANGED setLog

\* Keys of a run of sets: CKeys and one key more, so that a store of
\* max_size + 1 entries would be needed to hold them all when max_size is
\* the number of keys of CKeys.
RunKeys == CKeys \cup {"d"}

\* The run log after a set of key k: the keys of the last max_size + 1 sets.
Logged(log, k) ==
    LET l == Append(log, k)
    IN  IF Len(l) > max_size + 1 THEN Tail(l) ELSE l

\* CacheManager.set(key, value) as one set of a run of sets that nothing
\* interrupts: no read, no delete, no clock advance.
set_in_run(k, v) == SetStep(k, v) /\ setLog' = Logged(setLog, k)

NextEvict ==
    \E k \in RunKeys : \E v \in Values \cup {NoneVal} : set_in_run(k, v)

SpecEvict == Init /\ [][NextEvict]_vars

\* CacheManager.delete(key).
cache_delete(k) ==
    /\ cache' = DeleteState(cache, k, now)
    /\ held' = HeldAfter([held EXCEPT ![k] = NoSet],
                         DeleteState(cache, k, now), now)
    /\ lastOp' = "cache_delete"
    /\ lastKey' = k
    /\ beforeLen' = CurrentSize(cache, now)
    /\ retVal' = NoneVal
    /\ fetched' = FALSE
    /\ evicted' = {}
    /\ errOut' = ""
    /\ statsRet' = NoStats
    /\ UNCHANGED <<now, rlFrame, stats, getCalls, keyVars,
                   setLog, overlap, snapshot, dispVars>>

\* CacheManager.clear().
cache_clear ==
    /\ cache' = ClearState(cache)
    /\ held' = [k \in CKeys |-> NoSet]
    /\ lastOp' = "cache_clear"
    /\ lastKey' = ""
    /\ beforeLen' = CurrentSize(cache, now)
    /\ retVal' = NoneVal
    /\ fetched' = FALSE
    /\ evicted' = {}
    /\ errOut' = ""
    /\ statsRet' = NoStats
    /\ UNCHANGED <<now, rlFrame, stats, getCalls, keyVars,
                   setLog, overlap, snapshot, dispVars>>

\* CacheManager.get_stats(), what the caller keeps apart; len(self._cache)
\* sweeps the expired entries.
StatsStep ==
    /\ statsRet' = StatsMapping(stats, cache, now)
    /\ cache' = Expire(cache, now)
    /\ held' = HeldAfter(held, Expire(cache, now), now)
    /\ lastOp' = "get_stats"
    /\ lastKey' = ""
    /\ beforeLen' = CurrentSize(cache, now)
    /\ retVal' = NoneVal
    /\ fetched' = FALSE
    /\ evicted' = {}
    /\ errOut' = ""
    /\ UNCHANGED <<now, rlFrame, stats, getCalls, keyVars,
                   setLog, overlap, dispVars>>

\* CacheManager.get_stats(), the caller dropping the mapping.
get_stats == StatsStep /\ UNCHANGED snapshot

\* Faulty variant of ViewOf: the mapping is a view of the live counters.
ViewOf_Live(kept, st, c, time) ==
    IF kept = NoStats THEN kept ELSE StatsMapping(st, c, time)

\* What a caller reads in the mapping it kept from get_stats: lines 109-117
\* build a new dict of numbers, so the caller reads what it was given,
\* whatever the counters st and the store c have become.
ViewOf(kept, st, c, time) == kept

\* CacheManager.get_stats(), the caller keeping the mapping.
get_stats_kept == StatsStep /\ snapshot' = statsRet'

\* Faulty variant of WrapperFailState: the failed call leaves an entry under
\* its key.
WrapperFailState_Stores(c, k, time) ==
    SetItem(c, k, CHOOSE v \in Values : TRUE, time)

\* The store a wrapped call leaves behind when its fetch raised: the wrapper
\* has no handler, the set of line 184 is not reached.
WrapperFailState(c, k, time) == c

\* The error a wrapped call raises when its fetch raised err.
WrapperError(err) == err

\* cached(...).sync_wrapper around a fetch: k is the cache key the wrapper
\* builds from the arguments, out the result the fetch returns or the error
\* it raises if it is invoked, d the time the fetch takes.
cached_call(k, out, d) ==
    /\ getCalls < MaxGets
    /\ now + d <= MaxCacheTime
    /\ lastOp' = "cached_call"
    /\ lastKey' = k
    /\ beforeLen' = CurrentSize(cache, now)
    /\ stats' = CountGet(stats, GetItemValue(cache, k, now))
    /\ getCalls' = getCalls + 1
    /\ statsRet' = NoStats
    /\ IF GetItemValue(cache, k, now) # NoneVal
       THEN /\ d = 0
            /\ out = NoneVal
            /\ retVal' = GetItemValue(cache, k, now)
            /\ cache' = GetItemState(cache, k, now)
            /\ held' = HeldAfter(held, GetItemState(cache, k, now), now)
            /\ fetched' = FALSE
            /\ evicted' = {}
            /\ errOut' = ""
            /\ UNCHANGED <<now, admitted>>
       ELSE /\ fetched' = TRUE
            /\ now' = now + d
            /\ admitted' = Trim(admitted, now + d)
            /\ IF out \in FetchErrors
               THEN /\ errOut' = WrapperError(out)
                    /\ retVal' = NoneVal
                    /\ cache' = WrapperFailState(
                                    GetItemState(cache, k, now), k, now + d)
                    /\ held' = HeldAfter(held, cache', now + d)
                    /\ evicted' = {}
               ELSE /\ errOut' = ""
                    /\ retVal' = out
                    /\ cache' = SetItem(GetItemState(cache, k, now), k, out,
                                        now + d)
                    /\ held' = HeldAfter(
                                  [held EXCEPT
                                     ![k] = [value |-> out, at |-> now + d]],
                                  cache', now + d)
                    /\ evicted' = EvictedBy(GetItemState(cache, k, now), k,
                                            now + d)
    /\ UNCHANGED <<requests, raised, retBool, retInt, pc, tkey, keyVars,
                   setLog, overlap, snapshot,
                 dispVars>>

\* Time passes for the cache.
CacheTick == now < MaxCacheTime /\ Tick

NextCache ==
    \/ CacheTick
    \/ \E k \in CKeys : cache_get(k)
    \/ \E k \in CKeys : \E v \in Values \cup {NoneVal} : cache_set(k, v)
    \/ \E k \in CKeys : cache_delete(k)
    \/ cache_clear
    \/ get_stats
    \/ \E k \in CKeys : \E out \in Values \cup {NoneVal} \cup FetchErrors :
          \E d \in FetchTimes : cached_call(k, out, d)

SpecCache == Init /\ [][NextCache]_vars

\* The cache manager called directly, without the memoizing wrapper and
\* without get_stats.
NextStore ==
    \/ CacheTick
    \/ \E k \in CKeys : cache_get(k)
    \/ \E k \in CKeys : \E v \in Values \cup {NoneVal} : cache_set(k, v)
    \/ \E k \in CKeys : cache_delete(k)
    \/ cache_clear

SpecStore == Init /\ [][NextStore]_vars

\* ------------------------------------------------ statistics on their own

\* A cache manager whose counters stand at any values up to MaxCount, its
\* store empty again (every counted get lies in the past, the entries read
\* have been deleted since).
InitStats ==
    /\ now = 0
    /\ requests = <<>>
    /\ lastOp = "init"
    /\ lastKey = ""
    /\ raised = FALSE
    /\ retBool = FALSE
    /\ retInt = 0
    /\ beforeLen = 0
    /\ admitted = [k \in Keys |-> <<>>]
    /\ pc = [t \in Threads |-> "idle"]
    /\ tkey = [t \in Threads |-> "key1"]
    /\ cache = <<>>
    /\ stats \in [hits : 0..MaxCount, misses : 0..MaxCount, errors : {0}]
    /\ getCalls = stats.hits + stats.misses
    /\ held = [k \in CKeys |-> NoSet]
    /\ retVal = NoneVal
    /\ fetched = FALSE
    /\ evicted = {}
    /\ errOut = ""
    /\ statsRet = NoStats
    /\ bkArgs = <<>>
    /\ bkNamed = <<>>
    /\ bkOrder = <<>>
    /\ keyOut = <<>>
    /\ exchanges = {}
    /\ upCalls = 0
    /\ built = FALSE
    /\ toolOut = ""
    /\ setLog = <<>>
    /\ overlap = [t \in Threads |-> FALSE]
    /\ snapshot = NoStats

NextStats ==
    \/ CacheTick
    \/ get_stats

SpecStats == InitStats /\ [][NextStats]_vars

\* -------------------------------------------------------------- build_key
\* Strings are sequences of code points, so that their order and their
\* concatenation are computed; <<120, 61, 49>> is "x=1".

\* ":" and "=".
Sep == <<58>>
Eq == <<61>>

\* The values given to build_key: the strings "a" and "1", the integers 1
\* and 12, and None.
ArgValues ==
    {[t |-> "str", s |-> <<97>>, n |-> 0],
     [t |-> "str", s |-> <<49>>, n |-> 0],
     [t |-> "int", s |-> <<>>, n |-> 1],
     [t |-> "int", s |-> <<>>, n |-> 12],
     [t |-> "none", s |-> <<>>, n |-> 0]}

\* The argument names: "x", "xy" and "y".
Names == {<<120>>, <<120, 121>>, <<121>>}

\* The decimal digits of an integer n >= 0.
RECURSIVE Digits(_)
Digits(n) ==
    IF n < 10 THEN <<48 + n>> ELSE Digits(n \div 10) \o <<48 + (n % 10)>>

\* str(v): a string is itself, an integer its decimal digits, None "None".
Str(v) ==
    IF v.t = "str" THEN v.s
    ELSE IF v.t = "int" THEN Digits(v.n)
    ELSE <<78, 111, 110, 101>>

\* a < b for two strings: Python compares code point by code point, a
\* proper prefix being smaller.
RECURSIVE StrLess(_, _)
StrLess(a, b) ==
    IF a = <<>> THEN b # <<>>
    ELSE IF b = <<>> THEN FALSE
    ELSE IF Head(a) # Head(b) THEN Head(a) < Head(b)
    ELSE StrLess(Tail(a), Tail(b))

\* (k1, v1) < (k2, v2) for two items of one dict: the names differ, so the
\* names decide and the values are never compared.
ItemLess(a, b) == StrLess(a[1], b[1])

RECURSIVE Insert(_, _)
Insert(item, items) ==
    IF items = <<>> THEN <<item>>
    ELSE IF ItemLess(item, Head(items)) THEN <<item>> \o items
    ELSE <<Head(items)>> \o Insert(item, Tail(items))

RECURSIVE InsertionSort(_)
InsertionSort(items) ==
    IF items = <<>> THEN <<>>
    ELSE Insert(Head(items), InsertionSort(Tail(items)))

\* Faulty variant of SortedItems: the items stay in the order supplied.
SortedItems_AsSupplied(items) == items

\* sorted(kwargs.items()).
SortedItems(items) == InsertionSort(items)

\* f"{k}={v}".
Format(k, v) == k \o Eq \o Str(v)

\* ":".join(parts).
RECURSIVE Join(_)
Join(parts) ==
    IF parts = <<>> THEN <<>>
    ELSE IF Len(parts) = 1 THEN parts[1]
    ELSE parts[1] \o Sep \o Join(Tail(parts))

\* kwargs.items(): the (name, value) pairs in the order the call supplied
\* the names.
Items(named, order) ==
    [i \in 1..Len(order) |-> <<order[i], named[order[i]]>>]

\* Faulty variant of BuildKey: the named entries come first.
BuildKey_NamedFirst(args, kwargs) ==
    Join([i \in 1..Len(kwargs) |->
             Format(SortedItems(kwargs)[i][1], SortedItems(kwargs)[i][2])]
         \o [i \in 1..Len(args) |-> Str(args[i])])

\* CacheManager.build_key(*args, **kwargs), lines 130-132.
BuildKey(args, kwargs) ==
    Join([i \in 1..Len(args) |-> Str(args[i])]
         \o [i \in 1..Len(kwargs) |->
                Format(SortedItems(kwargs)[i][1], SortedItems(kwargs)[i][2])])

\* The orders a call can supply the names of S in.
Orders(S) ==
    {o \in [1..Cardinality(S) -> S] :
        \A i, j \in 1..Cardinality(S) : i # j => o[i] # o[j]}

\* The positional argument lists of at most n values.
ArgLists(n) == UNION {[1..m -> ArgValues] : m \in 0..n}

\* One caller holds a positional list and a set of named values, and calls
\* build_key with them again and again.
InitKey ==
    /\ now = 0
    /\ requests = <<>>
    /\ lastOp = "init"
    /\ lastKey = ""
    /\ raised = FALSE
    /\ retBool = FALSE
    /\ retInt = 0
    /\ beforeLen = 0
    /\ admitted = [k \in Keys |-> <<>>]
    /\ pc = [t \in Threads |-> "idle"]
    /\ tkey = [t \in Threads |-> "key1"]
    /\ cache = <<>>
    /\ stats = [hits |-> 0, misses |-> 0, errors |-> 0]
    /\ getCalls = 0
    /\ held = [k \in CKeys |-> NoSet]
    /\ retVal = NoneVal
    /\ fetched = FALSE
    /\ evicted = {}
    /\ errOut = ""
    /\ statsRet = NoStats
    /\ bkArgs \in ArgLists(MaxArgs)
    /\ \E S \in SUBSET Names : bkNamed \in [S -> ArgValues]
    /\ bkOrder = <<>>
    /\ keyOut = <<>>
    /\ exchanges = {}
    /\ upCalls = 0
    /\ built = FALSE
    /\ toolOut = ""
    /\ setLog = <<>>
    /\ overlap = [t \in Threads |-> FALSE]
    /\ snapshot = NoStats

\* cache_manager.build_key(*bkArgs, **kwargs), the names supplied in the
\* order `order`.
build_key(order) ==
    /\ keyOut' = BuildKey(bkArgs, Items(bkNamed, order))
    /\ bkOrder' = order
    /\ lastOp' = "build_key"
    /\ lastKey' = ""
    /\ UNCHANGED <<now, requests, raised, retBool, retInt, beforeLen,
                   admitted, pc, tkey, cacheVars, bkArgs, bkNamed, dispVars,
                   setLog, overlap, snapshot>>

NextKey == \E order \in Orders(DOMAIN bkNamed) : build_key(order)

SpecKey == InitKey /\ [][NextKey]_vars

\* ------------------------------------------------- provider and dispatcher
\* The tool handlers of server.py and the provider operations of
\* exchange.py they call, around the global rate_limiter and cache_manager.
\* The provider objects are an external library: an upstream call is
\* counted, its outcome is an input of the step.

\* config.SUPPORTED_EXCHANGES.
SUPPORTED_EXCHANGES ==
    {"binance", "coinbase", "kraken", "bitfinex", "bitstamp", "gemini",
     "kucoin", "okx", "bybit", "gate"}

\* The exchange arguments of the tool calls.
ExchangeArgs == {"binance", "nasdaq"}

\* The exchange arguments of the calls made on the connector itself.
ConnectorArgs == {"binance"}

\* The symbol arguments of the tool calls.
SymbolArgs == {"BTC/USDT", "BTCUSDT"}

\* The quote_currency arguments of get_markets, stringified.
QuoteArgs == {"None"}

\* What the provider does with a request that reaches it.
Outcomes == {"ok", "connect_error", "bad_symbol", "fetch_error"}

\* The tools served by a *_sync provider operation.
SyncTools == {"get_ticker", "get_ohlcv", "get_order_book", "get_trades"}

\* str.lower() on the exchange arguments.
Lower(ex) == IF ex = "Binance" THEN "binance" ELSE ex

\* str.upper() on the symbol arguments.
Upper(sym) == IF sym = "btc/usdt" THEN "BTC/USDT" ELSE sym

\* validate_symbol: "not v or '/' not in v" raises.
ValidSymbol(sym) == sym \in {"BTC/USDT", "btc/usdt"}

\* validate_exchange: "exchange.lower() not in supported_exchanges" raises.
ValidExchange(ex) == Lower(ex) \in SUPPORTED_EXCHANGES

\* str(self) of the one ExchangeConnector.
SelfStr == "connector"

\* build_key of positional strings: ":".join(parts).
RECURSIVE BuildKeyStr(_)
BuildKeyStr(parts) ==
    IF parts = <<>> THEN ""
    ELSE IF Len(parts) = 1 THEN parts[1]
    ELSE parts[1] \o ":" \o BuildKeyStr(Tail(parts))

\* The cache key of the wrapper, lines 155 and 173 of cache.py.
WrapperKey(key_prefix, name, parts) ==
    key_prefix \o ":" \o name \o ":" \o BuildKeyStr(parts)

\* Faulty variant of ErrorLabel: the last clause, "except Exception", is
\* missing, so an error of no listed class leaves call_tool as an exception
\* and no text is returned.
ErrorLabel_NoCatchAll(err) ==
    IF err = "" THEN "ok"
    ELSE IF err = "ValidationError" THEN "Validation Error"
    ELSE IF err = "ExchangeNotSupportedError" THEN "Exchange Error"
    ELSE IF err = "DataFetchError" THEN "Data Fetch Error"
    ELSE IF err \in {"ExchangeConnectionError", "InvalidSymbolError",
                     "RateLimitError", "CacheError"} THEN "Error"
    ELSE ""

\* call_tool, lines 239-255: the label of the text returned for an error,
\* "ok" for a result.
ErrorLabel(err) ==
    IF err = "" THEN "ok"
    ELSE IF err = "ValidationError" THEN "Validation Error"
    ELSE IF err = "ExchangeNotSupportedError" THEN "Exchange Error"
    ELSE IF err = "DataFetchError" THEN "Data Fetch Error"
    ELSE IF err \in {"ExchangeConnectionError", "InvalidSymbolError",
                     "RateLimitError", "CacheError"} THEN "Error"
    ELSE "Unexpected Error"

\* _get_exchange(exchange_name): the provider dict, the upstream calls made
\* (load_markets of a new provider), whether a provider object was
\* constructed, and the error raised.
GetExchange(exs, ex, out) ==
    IF Lower(ex) \notin SUPPORTED_EXCHANGES
    THEN [exchanges |-> exs, upCalls |-> 0, built |-> FALSE,
          err |-> "ExchangeNotSupportedError"]
    ELSE IF Lower(ex) \in exs
    THEN [exchanges |-> exs, upCalls |-> 0, built |-> FALSE, err |-> ""]
    ELSE IF out = "connect_error"
    THEN [exchanges |-> exs, upCalls |-> 1, built |-> TRUE,
          err |-> "ExchangeConnectionError"]
    ELSE [exchanges |-> exs \cup {Lower(ex)}, upCalls |-> 1, built |-> TRUE,
          err |-> ""]

\* The error a provider operation raises for an error of its body: the
\* handler "except ccxt.BadSymbol" exists in the ticker operations only,
\* "except Exception" turns everything else into DataFetchError.
Wrapped(tool, err) ==
    IF err = "" THEN ""
    ELSE IF err = "BadSymbol" /\ tool = "get_ticker" THEN "InvalidSymbolError"
    ELSE "DataFetchError"

\* The error of the upstream fetch.
FetchError(out) ==
    IF out = "bad_symbol" THEN "BadSymbol"
    ELSE IF out = "fetch_error" THEN "NetworkError"
    ELSE ""

\* Faulty variant of ProviderOp: the provider is looked up (and built)
\* before the rate limiter is asked.
ProviderOp_ConnectFirst(tool, reqs, exs, ex, check_time, append_time, out) ==
    LET g == GetExchange(exs, ex, out)
    IN  IF ~CheckLimitResult(reqs, ex, check_time)
        THEN [requests |-> RejectedState(reqs, ex, check_time),
              exchanges |-> g.exchanges, upCalls |-> g.upCalls,
              built |-> g.built, rejected |-> TRUE,
              err |-> Wrapped(tool, "RateLimitError")]
        ELSE [requests |-> AdmittedState(reqs, ex, check_time, append_time),
              exchanges |-> g.exchanges,
              upCalls |-> IF g.err = "" THEN g.upCalls + 1 ELSE g.upCalls,
              built |-> g.built, rejected |-> FALSE,
              err |-> IF g.err # "" THEN Wrapped(tool, g.err)
                      ELSE Wrapped(tool, FetchError(out))]

\* Faulty variant of ProviderOp: the timestamp of a request that fails
\* after its admission is taken out of the window again.
ProviderOp_RollsBack(tool, reqs, exs, ex, check_time, append_time, out) ==
    IF ~CheckLimitResult(reqs, ex, check_time)
    THEN [requests |-> RejectedState(reqs, ex, check_time),
          exchanges |-> exs, upCalls |-> 0, built |-> FALSE,
          rejected |-> TRUE, err |-> Wrapped(tool, "RateLimitError")]
    ELSE LET g == GetExchange(exs, ex, out)
             e == IF g.err # "" THEN Wrapped(tool, g.err)
                  ELSE Wrapped(tool, FetchError(out))
         IN  [requests |-> IF e = ""
                           THEN AdmittedState(reqs, ex, check_time,
                                              append_time)
                           ELSE CheckLimitState(reqs, ex, check_time),
              exchanges |-> g.exchanges,
              upCalls |-> IF g.err = "" THEN g.upCalls + 1 ELSE g.upCalls,
              built |-> g.built, rejected |-> FALSE, err |-> e]

\* The body of a provider operation (get_ticker_sync, lines 132-159, and
\* its siblings): record_request(exchange_name), then
\* _get_exchange(exchange_name), then the upstream fetch.
ProviderOp(tool, reqs, exs, ex, check_time, append_time, out) ==
    IF ~CheckLimitResult(reqs, ex, check_time)
    THEN [requests |-> RejectedState(reqs, ex, check_time),
          exchanges |-> exs, upCalls |-> 0, built |-> FALSE,
          rejected |-> TRUE, err |-> Wrapped(tool, "RateLimitError")]
    ELSE LET g == GetExchange(exs, ex, out)
         IN  [requests |-> AdmittedState(reqs, ex, check_time, append_time),
              exchanges |-> g.exchanges,
              upCalls |-> IF g.err = "" THEN g.upCalls + 1 ELSE g.upCalls,
              built |-> g.built, rejected |-> FALSE,
              err |-> IF g.err # "" THEN Wrapped(tool, g.err)
                      ELSE Wrapped(tool, FetchError(out))]

\* The body of get_markets, lines 413-444: _get_exchange(exchange_name),
\* then load_markets() on a provider whose markets are loaded already,
\* which makes no upstream call. The rate limiter is not asked.
MarketsOp(exs, ex, out) ==
    LET g == GetExchange(exs, ex, out)
    IN  [exchanges |-> g.exchanges, upCalls |-> g.upCalls, built |-> g.built,
         err |-> Wrapped("get_markets", g.err)]

\* The variables a tool call leaves alone whatever it does.
dispFrame == <<retBool, retInt, beforeLen, admitted, pc, tkey, held,
               evicted, statsRet, keyVars, setLog, overlap, snapshot>>

\* A handler whose request is refused by the validators.
Refused(tool, key) ==
    /\ lastOp' = tool
    /\ lastKey' = key
    /\ toolOut' = ErrorLabel("ValidationError")
    /\ errOut' = "ValidationError"
    /\ raised' = FALSE
    /\ upCalls' = 0
    /\ built' = FALSE
    /\ fetched' = FALSE
    /\ retVal' = NoneVal
    /\ UNCHANGED <<now, requests, exchanges, cache, stats, getCalls,
                   dispFrame>>

\* _handle_get_ticker, _handle_get_ohlcv, _handle_get_order_book and
\* _handle_get_trades, one per tool of SyncTools: the request model and
\* validate_exchange, then the *_sync provider operation with the symbol in
\* upper case and the exchange as given; d is the clock advance between the
\* two clock reads of an admitted record_request, out what the provider
\* does.
handle_sync(tool, sym, ex) ==
    IF ~ValidSymbol(sym) \/ ~ValidExchange(ex)
    THEN Refused(tool, BuildKeyStr(<<sym, ex>>))
    ELSE \E d \in IF CheckLimitResult(requests, ex, now)
                  THEN 0..MaxDelta ELSE {0} :
         \E out \in IF CheckLimitResult(requests, ex, now)
                    THEN Outcomes ELSE {"ok"} :
         LET r == ProviderOp(tool, requests, exchanges, ex, now, now + d, out)
         IN  /\ now + d <= MaxDispTime
             /\ lastOp' = tool
             /\ lastKey' = BuildKeyStr(<<Upper(sym), ex>>)
             /\ now' = now + d
             /\ requests' = r.requests
             /\ exchanges' = r.exchanges
             /\ upCalls' = r.upCalls
             /\ built' = r.built
             /\ raised' = r.rejected
             /\ errOut' = r.err
             /\ toolOut' = ErrorLabel(r.err)
             /\ fetched' = FALSE
             /\ retVal' = IF r.err = "" THEN CHOOSE v \in Values : TRUE
                          ELSE NoneVal
             /\ UNCHANGED <<cache, stats, getCalls, dispFrame>>

\* _handle_get_markets: the request model and validate_exchange, then
\* get_markets behind the memoizing wrapper (sync_wrapper, lines 171-186 of
\* cache.py).
handle_get_markets(ex, q) ==
    IF ~ValidExchange(ex)
    THEN Refused("get_markets", BuildKeyStr(<<ex, q>>))
    ELSE LET k == WrapperKey("markets", "get_markets", <<SelfStr, ex, q>>)
             hit == GetItemValue(cache, k, now) # NoneVal
             read == GetItemState(cache, k, now)
         IN  \E out \in IF hit THEN {"ok"} ELSE {"ok", "connect_error"} :
             LET r == MarketsOp(exchanges, ex, out)
             IN  /\ getCalls < MaxGets
                 /\ lastOp' = "get_markets"
                 /\ lastKey' = BuildKeyStr(<<ex, q>>)
                 /\ stats' = CountGet(stats, GetItemValue(cache, k, now))
                 /\ getCalls' = getCalls + 1
                 /\ raised' = FALSE
                 /\ fetched' = ~hit
                 /\ exchanges' = IF hit THEN exchanges ELSE r.exchanges
                 /\ upCalls' = IF hit THEN 0 ELSE r.upCalls
                 /\ built' = IF hit THEN FALSE ELSE r.built
                 /\ errOut' = IF hit THEN "" ELSE WrapperError(r.err)
                 /\ toolOut' = ErrorLabel(errOut')
                 /\ retVal' = IF hit THEN GetItemValue(cache, k, now)
                              ELSE IF r.err = "" THEN CHOOSE v \in Values : TRUE
                              ELSE NoneVal
                 /\ cache' = IF hit THEN read
                             ELSE IF r.err # ""
                             THEN WrapperFailState(read, k, now)
                             ELSE SetItem(read, k, retVal', now)
                 /\ UNCHANGED <<now, requests, dispFrame>>

\* The operations of the connector behind the asynchronous memoizing
\* wrapper, and the key_prefix each is decorated with.
CachedOps == {"get_ticker", "get_ohlcv"}
KeyPrefix(op) == IF op = "get_ticker" THEN "ticker" ELSE "ohlcv"

\* Faulty variant of ServedFromCache: the wrapper never answers from the
\* cache.
ServedFromCache_Never(cached_value) == FALSE

\* async_wrapper, lines 159-160 of cache.py: "if cached_value is not None:
\* return cached_value"; the function is awaited only otherwise.
ServedFromCache(cached_value) == cached_value # NoneVal

\* A decorated operation called on the connector with the symbol and the
\* exchange as its only arguments: async_wrapper, lines 153-168 of cache.py,
\* around the body of get_ticker (exchange.py 101-128) or get_ohlcv
\* (186-211).  Outcome "ok" is a provider whose fetch can be awaited; a
\* fetch that returns a plain value makes the await raise, which is outcome
\* "fetch_error".
cached_op(op, sym, ex) ==
    LET k == WrapperKey(KeyPrefix(op), op, <<SelfStr, sym, ex>>)
        hit == ServedFromCache(GetItemValue(cache, k, now))
        read == GetItemState(cache, k, now)
        free == ~hit /\ CheckLimitResult(requests, ex, now)
    IN  \E d \in IF free THEN 0..MaxDelta ELSE {0} :
        \E out \in IF free THEN Outcomes ELSE {"ok"} :
        LET r == ProviderOp(op, requests, exchanges, ex, now, now + d, out)
        IN  /\ getCalls < MaxGets
            /\ now + d <= MaxDispTime
            /\ ValidSymbol(sym) /\ sym = Upper(sym)
            /\ lastOp' = "connector." \o op
            /\ lastKey' = BuildKeyStr(<<sym, ex>>)
            /\ stats' = CountGet(stats, GetItemValue(cache, k, now))
            /\ getCalls' = getCalls + 1
            /\ fetched' = ~hit
            /\ now' = now + d
            /\ requests' = IF hit THEN requests ELSE r.requests
            /\ exchanges' = IF hit THEN exchanges ELSE r.exchanges
            /\ upCalls' = IF hit THEN 0 ELSE r.upCalls
            /\ built' = IF hit THEN FALSE ELSE r.built
            /\ raised' = (~hit /\ r.rejected)
            /\ errOut' = IF hit THEN "" ELSE WrapperError(r.err)
            /\ toolOut' = ""
            /\ retVal' = IF hit THEN GetItemValue(cache, k, now)
                         ELSE IF r.err = "" THEN CHOOSE v \in Values : TRUE
                         ELSE NoneVal
            /\ cache' = IF hit THEN read
                        ELSE IF r.err # ""
                        THEN WrapperFailState(read, k, now + d)
                        ELSE SetItem(read, k, retVal', now + d)
            /\ UNCHANGED dispFrame

\* ExchangeConnector.get_ticker called on the connector.
get_ticker(sym, ex) == cached_op("get_ticker", sym, ex)

\* ExchangeConnector.get_ohlcv called on the connector with the default
\* timeframe, since and limit.
get_ohlcv(sym, ex) == cached_op("get_ohlcv", sym, ex)

\* _handle_clear_cache: get_stats, clear, get_stats.  beforeLen is the
\* current_size of the statistics taken before the clear, statsRet the
\* statistics taken after it.
handle_clear_cache ==
    LET cleared == ClearState(Expire(cache, now))
    IN  /\ lastOp' = "clear_cache"
        /\ lastKey' = ""
        /\ beforeLen' = StatsMapping(stats, cache, now).current_size
        /\ cache' = Expire(cleared, now)
        /\ statsRet' = StatsMapping(stats, cleared, now)
        /\ toolOut' = ErrorLabel("")
        /\ errOut' = ""
        /\ raised' = FALSE
        /\ upCalls' = 0
        /\ built' = FALSE
        /\ fetched' = FALSE
        /\ retVal' = NoneVal
        /\ UNCHANGED <<now, requests, exchanges, stats, getCalls, retBool,
                       retInt, admitted, pc, tkey, held, evicted, keyVars,
                       setLog, overlap, snapshot>>

\* A call_tool that fails before any handler touches the limiter, the
\* providers or the cache: the error is raised inside the try block of
\* call_tool and mapped to a text by its except clauses.
Failed(name, key, err) ==
    /\ lastOp' = name
    /\ lastKey' = key
    /\ toolOut' = ErrorLabel(err)
    /\ errOut' = err
    /\ raised' = FALSE
    /\ upCalls' = 0
    /\ built' = FALSE
    /\ fetched' = FALSE
    /\ retVal' = NoneVal
    /\ UNCHANGED <<now, requests, exchanges, cache, stats, getCalls,
                   dispFrame>>

\* Tool names call_tool has no branch for.
UnknownTools == {"get_price", ""}

\* call_tool with a name of no branch, line 236:
\* "raise ValueError(f'Unknown tool: {name}')" inside the try block.
unknown_tool(name) == Failed(name, "", "ValueError")

\* call_tool of a tool whose arguments lack the required "symbol":
\* arguments["symbol"] raises KeyError in the handler (line 260 and the same
\* line of the other three handlers).
missing_symbol(tool) == Failed(tool, "<no symbol>", "KeyError")

\* Time passes for the dispatcher.
DispTick == now < MaxDispTime /\ Tick

NextDispatch ==
    \/ DispTick
    \/ \E tool \in SyncTools, sym \in SymbolArgs, ex \in ExchangeArgs :
          handle_sync(tool, sym, ex)
    \/ \E sym \in SymbolArgs, ex \in ConnectorArgs : get_ticker(sym, ex)
    \/ \E ex \in ExchangeArgs, q \in QuoteArgs : handle_get_markets(ex, q)
    \/ handle_clear_cache

SpecDispatch == Init /\ [][NextDispatch]_vars

\* The names call_tool can be called with.
ToolNames == SyncTools \cup {"get_markets", "clear_cache"} \cup UnknownTools

\* call_tool with every tool name and every kind of failure.
NextTools ==
    \/ DispTick
    \/ \E tool \in SyncTools, sym \in SymbolArgs, ex \in ExchangeArgs :
          handle_sync(tool, sym, ex)
    \/ \E ex \in ExchangeArgs, q \in QuoteArgs : handle_get_markets(ex, q)
    \/ handle_clear_cache
    \/ \E name \in UnknownTools : unknown_tool(name)
    \/ \E tool \in SyncTools : missing_symbol(tool)

SpecTools == Init /\ [][NextTools]_vars

\* The decorated operations next to the undecorated ones that share their
\* rate-limiter windows.
WrappedSyms == {"BTC/USDT"}

NextWrapped ==
    \/ DispTick
    \/ \E sym \in WrappedSyms, ex \in ConnectorArgs : get_ticker(sym, ex)
    \/ \E sym \in WrappedSyms, ex \in ConnectorArgs : get_ohlcv(sym, ex)
    \/ \E tool \in CachedOps, sym \in WrappedSyms, ex \in ConnectorArgs :
          handle_sync(tool, sym, ex)

SpecWrapped == Init /\ [][NextWrapped]_vars

\* --------------------------------------------------- provider registry
\* Exchange arguments that differ in letter case only.
CaseArgs == {"binance", "Binance"}

\* _get_exchange(exchange_name) called on the connector; out is what the
\* connection test of a new provider does.
get_exchange(ex) ==
    \E out \in {"ok", "connect_error"} :
    LET g == GetExchange(exchanges, ex, out)
    IN  /\ lastOp' = "_get_exchange"
        /\ lastKey' = ex
        /\ exchanges' = g.exchanges
        /\ upCalls' = g.upCalls
        /\ built' = g.built
        /\ errOut' = g.err
        /\ toolOut' = ""
        /\ raised' = FALSE
        /\ fetched' = FALSE
        /\ retVal' = NoneVal
        /\ UNCHANGED <<now, requests, cache, stats, getCalls, dispFrame>>

\* close(exchange_name) with a name: "if exchange_name in self._exchanges:
\* del self._exchanges[exchange_name]", the name taken as given.
CloseState(exs, name) == IF name \in exs THEN exs \ {name} ELSE exs

\* The steps of close that do not depend on its argument.
CloseStep(op, key) ==
    /\ lastOp' = op
    /\ lastKey' = key
    /\ upCalls' = 0
    /\ built' = FALSE
    /\ errOut' = ""
    /\ toolOut' = ""
    /\ raised' = FALSE
    /\ fetched' = FALSE
    /\ retVal' = NoneVal
    /\ UNCHANGED <<now, requests, cache, stats, getCalls, dispFrame>>

\* ExchangeConnector.close(exchange_name).
close(name) ==
    /\ exchanges' = CloseState(exchanges, name)
    /\ CloseStep("close", name)

\* ExchangeConnector.close(): self._exchanges.clear().
close_all ==
    /\ exchanges' = {}
    /\ CloseStep("close_all", "")

NextProvider ==
    \/ DispTick
    \/ \E ex \in CaseArgs : handle_sync("get_ticker", "BTC/USDT", ex)
    \/ \E ex \in CaseArgs \cup ExchangeArgs : get_exchange(ex)
    \/ \E name \in CaseArgs : close(name)
    \/ close_all

SpecProvider == Init /\ [][NextProvider]_vars

\* ---------------------------------------- asynchronous wrapper, in flight
\* Callers of ExchangeConnector.get_ticker running as tasks of one event
\* loop.  A task runs until it awaits: the lookup of the wrapper, the
\* record with the rate limiter, _get_exchange and the call of fetch_ticker
\* are one step; the task is suspended in "await exchange.fetch_ticker"
\* (exchange.py line 106) and the tasks of other callers run; the rest of
\* the operation and the set of the wrapper are a second step.

\* Symbols the callers ask for, and the exchange they ask.
FlightSyms == {"BTC/USDT", "ETH/USDT"}
FlightExchange == "binance"

\* The cache key of get_ticker(symbol, FlightExchange).
FlightKey(sym) ==
    WrapperKey("ticker", "get_ticker", <<SelfStr, sym, FlightExchange>>)

\* Faulty variant of FlightHit: the wrapper never takes the value it found.
FlightHit_Never(c, k, time) == FALSE

\* async_wrapper, lines 158-160: "if cached_value is not None: return".
FlightHit(c, k, time) == GetItemValue(c, k, time) # NoneVal

\* Faulty variant of Joins: a caller that finds the fetch of another caller
\* in flight for its key returns without a fetch of its own.
Joins_SingleFlight(pcs, syms, t, sym) ==
    \E u \in Threads \ {t} : pcs[u] = "fetching" /\ syms[u] = sym

\* async_wrapper, lines 158-163: between the lookup and the fetch nothing
\* asks whether a fetch for the key is in flight already.
Joins(pcs, syms, t, sym) == FALSE

\* What the steps of the wrapper leave alone.
flightFrame == <<retBool, retInt, beforeLen, admitted, held, evicted,
                 statsRet, keyVars, setLog, snapshot>>

\* Caller t enters get_ticker(sym, FlightExchange): cache.py lines 153-163
\* and exchange.py lines 101-106, up to the await.  d is the clock advance
\* between the two clock reads of an admitted record_request; out is what
\* the provider does before the task is suspended, "ok" being a fetch that
\* is now in flight.
async_wrapper_lookup(t, sym) ==
    LET k == FlightKey(sym)
        hit == FlightHit(cache, k, now)
        read == GetItemState(cache, k, now)
        fetches == ~hit /\ ~Joins(pc, tkey, t, sym)
        free == fetches /\ CheckLimitResult(requests, FlightExchange, now)
    IN  \E d \in IF free THEN 0..MaxDelta ELSE {0} :
        \E out \in IF free THEN Outcomes ELSE {"ok"} :
        LET r == ProviderOp("get_ticker", requests, exchanges, FlightExchange,
                            now, now + d, out)
            suspended == fetches /\ r.err = ""
        IN  /\ pc[t] = "idle"
            /\ getCalls < MaxGets
            /\ now + d <= MaxDispTime
            /\ lastOp' = "async_wrapper.lookup"
            /\ lastKey' = sym
            /\ stats' = CountGet(stats, GetItemValue(cache, k, now))
            /\ getCalls' = getCalls + 1
            /\ fetched' = fetches
            /\ now' = now + d
            /\ requests' = IF fetches THEN r.requests ELSE requests
            /\ exchanges' = IF fetches THEN r.exchanges ELSE exchanges
            /\ upCalls' = IF fetches THEN r.upCalls ELSE 0
            /\ built' = IF fetches THEN r.built ELSE FALSE
            /\ raised' = (fetches /\ r.rejected)
            /\ errOut' = IF fetches THEN WrapperError(r.err) ELSE ""
            /\ toolOut' = ""
            /\ retVal' = IF hit THEN GetItemValue(cache, k, now) ELSE NoneVal
            /\ cache' = IF fetches /\ r.err # ""
                        THEN WrapperFailState(read, k, now + d)
                        ELSE read
            /\ pc' = [pc EXCEPT ![t] = IF suspended THEN "fetching"
                                       ELSE "idle"]
            /\ tkey' = [tkey EXCEPT ![t] = IF suspended THEN sym ELSE @]
            /\ overlap' =
                  IF suspended
                  THEN [u \in Threads |->
                          IF u = t
                          THEN \E w \in Threads \ {t} :
                                  pc[w] = "fetching" /\ tkey[w] = sym
                          ELSE IF pc[u] = "fetching" /\ tkey[u] = sym
                          THEN TRUE
                          ELSE overlap[u]]
                  ELSE overlap
            /\ UNCHANGED flightFrame

\* The fetch of caller t completes and its task resumes: exchange.py lines
\* 106-128 and cache.py lines 165-168.  fin is what the fetch did.
async_wrapper_resume(t) ==
    \E fin \in {"ok", "bad_symbol", "fetch_error"} :
    LET k == FlightKey(tkey[t])
        err == Wrapped("get_ticker", FetchError(fin))
        v == CHOOSE x \in Values : TRUE
    IN  /\ pc[t] = "fetching"
        /\ lastOp' = "async_wrapper.resume"
        /\ lastKey' = tkey[t]
        /\ cache' = IF err = "" THEN SetItem(cache, k, v, now)
                    ELSE WrapperFailState(cache, k, now)
        /\ retVal' = IF err = "" THEN v ELSE NoneVal
        /\ errOut' = WrapperError(err)
        /\ fetched' = FALSE
        /\ upCalls' = 0
        /\ built' = FALSE
        /\ raised' = FALSE
        /\ toolOut' = ""
        /\ pc' = [pc EXCEPT ![t] = "idle"]
        /\ overlap' = [overlap EXCEPT ![t] = FALSE]
        /\ UNCHANGED <<now, requests, exchanges, stats, getCalls, tkey,
                       flightFrame>>

NextFlight ==
    \/ DispTick
    \/ \E t \in Threads, sym \in FlightSyms : async_wrapper_lookup(t, sym)
    \/ \E t \in Threads : async_wrapper_resume(t)

SpecFlight == Init /\ [][NextFlight]_vars

\* ------------------------------------------- cache manager, store faults
\* The cache manager with calls in which the underlying store raises, with
\* a caller that keeps the mapping of get_stats, and with the other
\* operations that run next to it: build_key and the clear_cache tool.

\* The key recorded for a call in which the underlying store raised: a key
\* the store cannot hash; for clear, which takes no key, the mark of such a
\* call.
Faulty == "<raises>"

\* The manager's operations on the store.
StoreOps == {"cache_get", "cache_set", "cache_delete", "cache_clear"}

\* Faulty variant of CountError: the failed call is counted as a miss.
CountError_AsMiss(st) == [st EXCEPT !.misses = @ + 1]

\* The handlers "except Exception" of get, set, delete and clear:
\* self._stats["errors"] += 1.
CountError(st) == [st EXCEPT !.errors = @ + 1]

\* The error the handlers raise in place of the error of the store.
ManagerError(op) == "CacheError"

\* The stores c with some of its least recently used entries popped.
Suffixes(c) == {SubSeq(c, i, Len(c)) : i \in 1..(Len(c) + 1)}

\* The stores a call may leave behind when the store raises in it: a get
\* and a delete raise in the lookup of the key, before anything is written;
\* a set raises after the sweep of the expired entries; a clear pops the
\* entries one by one and may raise after any of them.
FaultStates(op, c, time) ==
    IF op = "cache_set" THEN {Expire(c, time)}
    ELSE IF op = "cache_clear" THEN Suffixes(Expire(c, time))
    ELSE {c}

\* CacheManager.get, set, delete or clear in which the store raises.
store_raises(op) ==
    \E c2 \in FaultStates(op, cache, now) :
        /\ stats.errors < MaxErrors
        /\ cache' = c2
        /\ held' = HeldAfter(held, c2, now)
        /\ stats' = CountError(stats)
        /\ errOut' = ManagerError(op)
        /\ lastOp' = op
        /\ lastKey' = Faulty
        /\ beforeLen' = CurrentSize(cache, now)
        /\ retVal' = NoneVal
        /\ fetched' = FALSE
        /\ evicted' = {}
        /\ statsRet' = NoStats
        /\ UNCHANGED <<now, rlFrame, getCalls, keyVars, setLog, overlap,
                       snapshot, dispVars>>

\* The caller reads the mapping it kept from get_stats.
read_kept ==
    /\ snapshot # NoStats
    /\ statsRet' = ViewOf(snapshot, stats, cache, now)
    /\ lastOp' = "read_stats"
    /\ lastKey' = ""
    /\ beforeLen' = CurrentSize(cache, now)
    /\ retVal' = NoneVal
    /\ fetched' = FALSE
    /\ evicted' = {}
    /\ errOut' = ""
    /\ UNCHANGED <<now, rlFrame, cache, held, stats, getCalls, keyVars,
                   setLog, overlap, snapshot, dispVars>>

\* The key the callers of the manager use here.
ManagerKeys == {"a"}

NextManager ==
    \/ CacheTick
    \/ \E k \in ManagerKeys : cache_get(k)
    \/ \E k \in ManagerKeys : \E v \in Values : cache_set(k, v)
    \/ \E k \in ManagerKeys : cache_delete(k)
    \/ cache_clear
    \/ get_stats_kept
    \/ read_kept
    \/ \E op \in StoreOps : store_raises(op)
    \/ handle_clear_cache
    \/ \E order \in Orders(DOMAIN bkNamed) : build_key(order)

SpecManager == Init /\ [][NextManager]_vars

\* ================================================================ claims
\* The formulas below read the window the way the specification words it:
\* the live timestamps of a window at time t are those with
\* ts >= t - time_window, whatever their position in the deque.

\* C1: record_request(key) called at clock value `now` succeeds, leaving the
\* purged window with the clock value read for the timestamp appended to it,
\* if and only if the window purged of the timestamps older than
\* now - time_window holds fewer than max_requests timestamps; otherwise it
\* raises RateLimitError and appends nothing.
C1_AdmissionIff ==
    [][\A k \in Keys :
        (lastOp' = "record_request" /\ lastKey' = k) =>
            LET live == SelectSeq(Window(requests, k),
                                  LAMBDA ts : ts >= now - time_window)
            IN  IF Len(live) < max_requests
                THEN ~raised' /\ Window(requests', k) = Append(live, now')
                ELSE raised' /\ Window(requests', k) = live /\ now' = now
      ]_vars

\* C1 witness: max_requests calls were admitted inside one window and the
\* next call, still inside that window, has just been rejected.
C1_Witness ==
    /\ lastOp = "record_request"
    /\ raised
    /\ lastKey \in Keys
    /\ Len(admitted[lastKey]) = max_requests
    /\ Window(requests, lastKey) = admitted[lastKey]

\* C2: in every reachable state of the sequential rate limiter every key's
\* window holds at most max_requests timestamps.
C2_WindowBounded ==
    \A k \in DOMAIN requests : Len(requests[k]) <= max_requests

\* C2 witness: a window is full and a further request has just been turned
\* away, the bound being reached and not passed.
C2_Witness ==
    /\ lastOp = "check_limit"
    /\ retBool = FALSE
    /\ lastKey \in DOMAIN requests
    /\ Len(requests[lastKey]) = max_requests

\* C3: a record_request that raises RateLimitError leaves the key's sequence
\* of timestamps exactly as it was, and get_remaining_requests evaluated at
\* the same clock value returns the same number before and after it.
C3_RejectedUnchanged ==
    [][\A k \in Keys :
        (lastOp' = "record_request" /\ lastKey' = k /\ raised') =>
            /\ Window(requests', k) = Window(requests, k)
            /\ now' = now
            /\ RemainingValue(requests', k, now')
                 = RemainingValue(requests, k, now)
      ]_vars

\* C3 witness: a rejected record_request on a key whose window was full.
C3_Witness ==
    /\ lastOp = "record_request"
    /\ raised
    /\ beforeLen = max_requests
    /\ Len(Window(requests, lastKey)) = max_requests

\* C4: when a key is at its limit and the clock has advanced past the oldest
\* timestamp plus time_window, record_request succeeds with no reset, and
\* get_remaining_requests afterwards equals max_requests minus the number
\* of timestamps still inside the window, the new one included.
C4_AgedWindowAdmits ==
    [][\A k \in Keys :
        (/\ lastOp' = "record_request"
         /\ lastKey' = k
         /\ Len(Window(requests, k)) = max_requests
         /\ max_requests > 0
         /\ now > Window(requests, k)[1] + time_window) =>
            /\ ~raised'
            /\ Window(requests', k)[Len(Window(requests', k))] = now'
            /\ RemainingValue(requests', k, now')
                 = max_requests
                   - Cardinality({i \in 1..Len(Window(requests', k)) :
                        Window(requests', k)[i] >= now' - time_window})
      ]_vars

\* C4 witness: the window was full before the call, the call was admitted,
\* and an older timestamp is still inside the window next to the new one.
C4_Witness ==
    /\ lastOp = "record_request"
    /\ ~raised
    /\ beforeLen = max_requests
    /\ Len(Window(requests, lastKey)) >= 2

\* C5: with no reset in between, for every key and every time t, at most
\* max_requests admitted timestamps lie in the closed interval
\* [t - time_window, t].
C5_SlidingWindowBound ==
    \A k \in Keys : \A t \in 0..MaxTime :
        Cardinality({i \in 1..Len(admitted[k]) :
                        /\ admitted[k][i] >= t - time_window
                        /\ admitted[k][i] <= t}) <= max_requests

\* C5 witness: the window has slid: a request was admitted on a key whose
\* window was full before the call, and the closed interval of length
\* time_window ending at the new timestamp holds exactly max_requests
\* admissions, the oldest of them on its lower end.
C5_Witness ==
    /\ lastOp = "record_request"
    /\ ~raised
    /\ beforeLen = max_requests
    /\ Len(admitted[lastKey]) = max_requests
    /\ admitted[lastKey][max_requests]
         = admitted[lastKey][1] + time_window

\* C6: check_limit, record_request (admitted or rejected),
\* get_remaining_requests and reset on a key k leave the window of every
\* other key unchanged, and with it that key's get_remaining_requests.
C6_KeysIndependent ==
    [][\A k \in Keys :
        (/\ lastOp' \in {"check_limit", "record_request",
                         "get_remaining_requests", "reset"}
         /\ lastKey' = k) =>
            \A k2 \in Keys \ {k} :
                /\ Window(requests', k2) = Window(requests, k2)
                /\ (k2 \in DOMAIN requests') = (k2 \in DOMAIN requests)
                /\ RemainingValue(requests', k2, now)
                     = RemainingValue(requests, k2, now)
      ]_vars

\* C6 witness: one key has just been driven to its limit and rejected while
\* another key holds a live, partly used window.
C6_Witness ==
    /\ lastOp = "record_request"
    /\ raised
    /\ \E k2 \in Keys \ {lastKey} :
          /\ Len(Window(requests, k2)) = 1
          /\ RemainingValue(requests, k2, now) = max_requests - 1

\* C7: after reset(key) get_remaining_requests(key) equals max_requests and
\* the next max_requests record_request(key) calls succeed (a call on the
\* key is rejected only when max_requests calls were admitted since its last
\* reset); after reset_all() the same holds for every key; reset on a
\* never-seen key changes nothing.
C7_ResetRestoresQuota ==
    [][/\ \A k \in Keys :
            (lastOp' = "reset" /\ lastKey' = k) =>
                /\ RemainingValue(requests', k, now') = max_requests
                /\ Window(requests', k) = <<>>
                /\ (k \notin DOMAIN requests => requests' = requests)
       /\ (lastOp' = "reset_all") =>
            \A k \in Keys :
                /\ RemainingValue(requests', k, now') = max_requests
                /\ Window(requests', k) = <<>>
       /\ \A k \in Keys :
            (/\ lastOp' = "record_request"
             /\ lastKey' = k
             /\ raised') => Len(admitted[k]) >= max_requests
      ]_vars

\* C7 witness: reset of a key whose window was full, the quota being whole
\* again afterwards.
C7_Witness ==
    /\ lastOp = "reset"
    /\ beforeLen = max_requests
    /\ lastKey \in DOMAIN requests
    /\ RemainingValue(requests, lastKey, now) = max_requests

\* C8: get_remaining_requests(key) at time `now` returns
\* max(0, max_requests - number of the key's timestamps >= now - time_window)
\* and max_requests for a key never seen; after k admitted calls inside the
\* window ending at `now` it returns max_requests - k; it never raises,
\* never adds a timestamp and never creates the key.
C8_RemainingValue ==
    [][\A k \in Keys :
        (lastOp' = "get_remaining_requests" /\ lastKey' = k) =>
            LET q == Window(requests, k)
                nlive == Cardinality({i \in 1..Len(q) :
                                        q[i] >= now - time_window})
            IN  /\ retInt' = IF k \in DOMAIN requests
                             THEN (IF max_requests - nlive > 0
                                   THEN max_requests - nlive ELSE 0)
                             ELSE max_requests
                /\ ~raised'
                /\ DOMAIN requests' = DOMAIN requests
                /\ Len(Window(requests', k)) = nlive
                /\ \A i \in 1..nlive :
                     Window(requests', k)[i] = q[Len(q) - nlive + i]
                /\ retInt' = max_requests - Len(admitted[k])
      ]_vars

\* C8 witness: get_remaining_requests on a window of which part had aged out
\* and part was still live.
C8_Witness ==
    /\ lastOp = "get_remaining_requests"
    /\ retInt < max_requests
    /\ retInt > max_requests - beforeLen

\* C9: check_limit(key) never raises and never appends; it only removes the
\* timestamps older than now - time_window, returns true iff the purged
\* window holds fewer than max_requests timestamps, and leaves the outcome
\* of a record_request at the same clock value as it was.
C9_CheckLimitReadOnly ==
    [][\A k \in Keys :
        (lastOp' = "check_limit" /\ lastKey' = k) =>
            LET live == SelectSeq(Window(requests, k),
                                  LAMBDA ts : ts >= now - time_window)
            IN  /\ ~raised'
                /\ now' = now
                /\ Window(requests', k) = live
                /\ retBool' = (Len(live) < max_requests)
                /\ CheckLimitResult(requests', k, now') = retBool'
                /\ CheckLimitResult(requests, k, now) = retBool'
                /\ AdmittedState(requests', k, now', now')
                     = AdmittedState(requests, k, now, now)
                /\ RejectedState(requests', k, now')
                     = RejectedState(requests, k, now)
      ]_vars

\* C9 witness: check_limit on a key that was at its limit found room after
\* purging aged timestamps.
C9_Witness ==
    /\ lastOp = "check_limit"
    /\ retBool
    /\ beforeLen = max_requests
    /\ Len(Window(requests, lastKey)) < beforeLen

\* C10: when the steps of concurrent record_request calls on one key
\* interleave, the key's window never holds more than max_requests
\* timestamps, as in some sequential order of the calls.
C10_ConcurrentWindowBounded ==
    \A k \in Keys : ~(Len(Window(requests, k)) > max_requests)

\* C11: after every set, in any sequence of set/get/delete/clear calls, the
\* store holds at most max_size entries and get_stats reports a
\* current_size of at most max_size.
C11_CapacityBounded ==
    /\ Len(cache) <= max_size
    /\ Cardinality({i \in 1..Len(cache) : now < cache[i].expires})
         <= max_size
    /\ statsRet.current_size <= max_size

\* C11 witness: a set of a new key into a store full of live entries has
\* just evicted one of them, and the store is full again.
C11_Witness ==
    /\ lastOp = "cache_set"
    /\ beforeLen = max_size
    /\ evicted # {}
    /\ Len(cache) = max_size

\* C12: get(k) returns the value last set under k when that set is less
\* than ttl old and has not been overwritten, deleted, cleared or evicted,
\* and returns absent otherwise; the read leaves the expiry of the entry at
\* set time + ttl.
C12_ExpiryExact ==
    [][\A k \in CKeys :
        (lastOp' = "cache_get" /\ lastKey' = k) =>
            /\ retVal' = IF held[k].at >= 0 /\ now < held[k].at + ttl
                         THEN held[k].value
                         ELSE NoneVal
            /\ \A i \in 1..Len(cache') :
                 (cache'[i].key = k /\ held[k].at >= 0) =>
                     cache'[i].expires = held[k].at + ttl
            /\ \A i \in 1..Len(cache) :
                 (cache[i].key = k /\ held[k].at < 0) =>
                     (cache[i].value = NoneVal \/ now >= cache[i].expires)
      ]_vars

\* C12 witness: a value read back at the last instant before its expiry.
C12_Witness ==
    /\ lastOp = "cache_get"
    /\ lastKey \in CKeys
    /\ retVal \in Values
    /\ held[lastKey].at >= 0
    /\ now = held[lastKey].at + ttl - 1

\* C13: hits + misses equals the number of get calls made so far, and the
\* total_requests get_stats reports equals hits + misses.
C13_CountersMatchGets ==
    /\ stats.hits + stats.misses = getCalls
    /\ stats.errors = 0
    /\ (lastOp = "get_stats") =>
          /\ statsRet.total_requests = getCalls
          /\ statsRet.hits + statsRet.misses = statsRet.total_requests

\* C13 witness: get_stats after a hit and a miss.
C13_Witness ==
    /\ lastOp = "get_stats"
    /\ statsRet.hits >= 1
    /\ statsRet.misses >= 1

\* C15: a wrapped call that finds a live entry under its key returns that
\* value and does not invoke the fetch, whatever the value is.
C15_HitSkipsFetch ==
    [][\A k \in CKeys :
        (lastOp' = "cached_call" /\ lastKey' = k /\ held[k].at >= 0) =>
            (retVal' = held[k].value /\ ~fetched')
      ]_vars

\* C16: when the fetch raises, the wrapped call raises that same error and
\* returns nothing, the store holds exactly the entries it held before (no
\* set is performed; only the recency order may change), a get of the key
\* finds nothing afterwards, and a wrapped call with the same key made next
\* invokes the fetch again.
C16_FailureNotCached ==
    [][\A k \in CKeys :
        /\ (lastOp' = "cached_call" /\ lastKey' = k /\ errOut' # "") =>
              /\ fetched'
              /\ errOut' \in FetchErrors
              /\ retVal' = NoneVal
              /\ {cache'[i] : i \in 1..Len(cache')}
                   = {cache[i] : i \in 1..Len(cache)}
              /\ Len(cache') = Len(cache)
              /\ held'[k] = held[k] \/ held'[k] = NoSet
              /\ GetItemValue(cache', k, now') = NoneVal
        /\ (/\ lastOp = "cached_call" /\ lastKey = k /\ errOut # ""
            /\ lastOp' = "cached_call" /\ lastKey' = k) => fetched'
      ]_vars

\* C16 witness: a wrapped call whose fetch raised, on a key another key's
\* entry shares the store with.
C16_Witness ==
    /\ lastOp = "cached_call"
    /\ errOut \in FetchErrors
    /\ fetched
    /\ cache # <<>>

\* C14 as stated: the rate get_stats reports is exactly
\* hits / (hits + misses) * 100, and 0 when no get was counted.
C14_HitRateExact ==
    (lastOp = "get_stats") =>
        IF statsRet.total_requests = 0
        THEN statsRet.hit_rate_x100 = 0
        ELSE statsRet.hit_rate_x100 * statsRet.total_requests
                = statsRet.hits * 10000

\* C14, amended: the rate get_stats reports is hits / (hits + misses) * 100
\* rounded to two decimals (a hundredth of a percent nearest to the exact
\* quotient), and 0 when no get was counted.
C14_HitRateRounded ==
    (lastOp = "get_stats") =>
        LET total == stats.hits + stats.misses
            diff == statsRet.hit_rate_x100 * total - stats.hits * 10000
        IN  /\ statsRet.hits = stats.hits
            /\ statsRet.misses = stats.misses
            /\ IF total = 0
               THEN statsRet.hit_rate_x100 = 0
               ELSE /\ 2 * diff <= total
                    /\ 2 * diff >= 0 - total

\* C14 witness: one hit in three gets is reported as 33.33 percent, two
\* hits in three gets as 66.67 percent.
C14_Witness ==
    /\ lastOp = "get_stats"
    /\ statsRet.hits = 2
    /\ statsRet.misses = 1
    /\ statsRet.hit_rate_x100 = 6667

\* C19: build_key returns the same string whatever the order the named
\* arguments are supplied in, and the same string on every call with the
\* same inputs: any two successive calls with one positional list and one
\* set of named values return equal strings, and the string returned is
\* the one every supply order gives.
C19_KeyOrderIndependent ==
    [][(lastOp' = "build_key") =>
          /\ (lastOp = "build_key" => keyOut' = keyOut)
          /\ \A o \in Orders(DOMAIN bkNamed) :
                BuildKey(bkArgs, Items(bkNamed, o)) = keyOut'
      ]_vars

\* C19 witness: the names were supplied in decreasing order, "y" first.
C19_Witness ==
    /\ lastOp = "build_key"
    /\ Len(bkOrder) >= 2
    /\ \A i \in 1..(Len(bkOrder) - 1) : StrLess(bkOrder[i + 1], bkOrder[i])
    /\ Len(bkArgs) >= 1

\* C20: the string build_key returns is the positional arguments
\* stringified in call order followed by one name=value entry per named
\* argument in increasing lexicographic order of name, all joined by ":".
C20_KeyLayout ==
    (lastOp = "build_key") =>
        LET n == Len(bkOrder)
            byName == CHOOSE o \in Orders(DOMAIN bkNamed) :
                         \A i \in 1..(n - 1) : StrLess(o[i], o[i + 1])
            parts == [i \in 1..Len(bkArgs) |-> Str(bkArgs[i])]
                     \o [i \in 1..n |->
                            byName[i] \o <<61>> \o Str(bkNamed[byName[i]])]
            RECURSIVE Cat(_)
            Cat(i) == IF i > Len(parts) THEN <<>>
                      ELSE IF i = Len(parts) THEN parts[i]
                      ELSE parts[i] \o <<58>> \o Cat(i + 1)
        IN  keyOut = Cat(1)

\* C20 witness: build_key("a", 1, y=None, x="1") returned "a:1:x=1:y=None".
C20_Witness ==
    /\ lastOp = "build_key"
    /\ bkOrder = <<(<<121>>), (<<120>>)>>
    /\ keyOut = <<97, 58, 49, 58, 120, 61, 49, 58,
                  121, 61, 78, 111, 110, 101>>

\* C17: for every data tool, a successful call that finds the cache
\* without a live entry records a request with the rate limiter under the
\* exchange key and leaves the answer in the cache; and a call repeated
\* with the same arguments right after a successful one is served from the
\* cache: no upstream call, no provider built, the rate-limiter windows
\* untouched.
C17_DispatchOrder ==
    [][\A tool \in SyncTools \cup {"get_markets"} :
        /\ (lastOp' = tool /\ toolOut' = "ok" /\ Expire(cache, now) = <<>>)
              => /\ \E ex \in ExchangeArgs :
                       Len(Window(requests', ex)) > Len(Window(requests, ex))
                 /\ Expire(cache', now') # <<>>
        /\ (/\ lastOp = tool /\ toolOut = "ok"
            /\ lastOp' = tool /\ lastKey' = lastKey)
              => /\ toolOut' = "ok"
                 /\ upCalls' = 0
                 /\ ~built'
                 /\ requests' = requests
      ]_vars

\* C18: when record_request rejects the request of a provider operation,
\* no provider object is constructed, no upstream call is made, the
\* provider dict and the entries of the cache are what they were, and
\* the window of the exchange key holds no new timestamp.
C18_RejectionAbortsBeforeNetwork ==
    [][(raised' /\ lastOp' \in SyncTools \cup {"connector.get_ticker"}) =>
          /\ ~built'
          /\ upCalls' = 0
          /\ exchanges' = exchanges
          /\ {cache'[i] : i \in 1..Len(cache')}
                = {cache[i] : i \in 1..Len(cache)}
          /\ Len(cache') = Len(cache)
          /\ errOut' # ""
          /\ retVal' = NoneVal
          /\ \A k \in DOMAIN requests' :
                Len(requests'[k])
                   <= IF k \in DOMAIN requests THEN Len(requests[k]) ELSE 0
      ]_vars

\* C18 witness: a get_ticker tool call was rejected by the rate limiter
\* before any provider object existed.
C18_Witness ==
    /\ lastOp = "get_ticker"
    /\ raised
    /\ exchanges = {}
    /\ toolOut = "Data Fetch Error"

\* C18 witness on the memoized operation: the rejected call found the cache
\* holding another entry and left it there.
C18_WitnessCached ==
    /\ lastOp = "connector.get_ticker"
    /\ raised
    /\ fetched
    /\ cache # <<>>

\* C21: delete(key) removes the live entry of the key and nothing else:
\* afterwards the key has no live entry, the entries of the other keys are
\* what they were (value, expiry and order), a key without a live entry
\* leaves the store as it was, and the counters and the clock are unchanged.
C21_DeleteOnlyKey ==
    [][\A k \in CKeys :
        (lastOp' = "cache_delete" /\ lastKey' = k) =>
            /\ \A i \in 1..Len(cache') :
                  cache'[i].key = k => now' >= cache'[i].expires
            /\ SelectSeq(cache', LAMBDA e : e.key # k)
                  = SelectSeq(cache, LAMBDA e : e.key # k)
            /\ IF \E i \in 1..Len(cache) :
                     cache[i].key = k /\ now < cache[i].expires
               THEN Len(cache') = Len(cache) - 1
               ELSE cache' = cache
            /\ stats' = stats
            /\ getCalls' = getCalls
            /\ now' = now
      ]_vars

\* C21 witness: one of two live entries was deleted, the other is still
\* live.
C21_Witness ==
    /\ lastOp = "cache_delete"
    /\ beforeLen = 2
    /\ Len(cache) = 1
    /\ cache[1].key # lastKey
    /\ now < cache[1].expires

\* C22: the clear_cache tool, through clear(), leaves no entry in the store:
\* the store is empty, the statistics taken after the clear report
\* current_size 0, no key has a live entry, and the counters, the clock and
\* every rate-limiter window are what they were.
C22_ClearEmptiesStore ==
    [][lastOp' = "clear_cache" =>
            /\ cache' = <<>>
            /\ statsRet'.current_size = 0
            /\ \A i \in 1..Len(cache') : now' >= cache'[i].expires
            /\ stats' = stats
            /\ statsRet'.hits = stats.hits
            /\ statsRet'.misses = stats.misses
            /\ statsRet'.errors = stats.errors
            /\ requests' = requests
            /\ now' = now
            /\ toolOut' = "ok"
      ]_vars

\* C22 witness: the tool cleared a store that held a live entry while a
\* counter was above zero and a rate-limiter window held a timestamp.
C22_Witness ==
    /\ lastOp = "clear_cache"
    /\ beforeLen >= 1
    /\ cache = <<>>
    /\ stats.misses >= 1
    /\ \E k \in DOMAIN requests : Len(requests[k]) >= 1

\* C24: a get_ticker request whose symbol is malformed or whose exchange is
\* not supported ends in a text result containing 'Error' without an
\* exception leaving the handler, records nothing with the rate limiter and
\* makes no upstream call.
C24_RefusalIsTextResult ==
    [][\A sym \in SymbolArgs, ex \in ExchangeArgs :
        (/\ lastOp' = "get_ticker"
         /\ lastKey' = BuildKeyStr(<<sym, ex>>)
         /\ (~ValidSymbol(sym) \/ ~ValidExchange(ex))) =>
            /\ errOut' = ""
            /\ toolOut' \in {"Validation Error", "Exchange Error",
                             "Data Fetch Error", "Error",
                             "Unexpected Error"}
            /\ requests' = requests
            /\ upCalls' = 0
      ]_vars

\* C23: after max_size + 1 sets of pairwise distinct keys k1..k(M+1), made
\* in that order with nothing in between, the last set evicted exactly one
\* entry, the entry of k1, and the store holds exactly k2..k(M+1), each with
\* a live entry, the newly set key among them.
C23_OldestEvicted ==
    LET n == Len(setLog)
    IN  (/\ n = max_size + 1
         /\ \A i, j \in 1..n : i # j => setLog[i] # setLog[j]) =>
            /\ evicted = {setLog[1]}
            /\ setLog[1] \notin KeysOf(cache)
            /\ Len(cache) = max_size
            /\ \A i \in 2..n :
                  \E j \in 1..Len(cache) :
                      /\ cache[j].key = setLog[i]
                      /\ now < cache[j].expires
            /\ lastKey = setLog[n]

\* C23 witness: a run of max_size + 1 sets of distinct keys has just ended
\* with an eviction.
C23_Witness ==
    /\ lastOp = "cache_set"
    /\ Len(setLog) = max_size + 1
    /\ \A i, j \in 1..Len(setLog) : i # j => setLog[i] # setLog[j]
    /\ evicted # {}
    /\ beforeLen = max_size

\* C25: a provider is constructed for an identifier only while none is
\* registered for it, and the constructed provider is the registered one; a
\* _get_exchange(name) for a registered identifier returns without
\* constructing or loading markets; after close(name) the identifier
\* _get_exchange(name) registers is no longer registered, after close() none
\* is.
C25_ProviderReuse ==
    [][\A ex \in CaseArgs \cup ExchangeArgs :
        /\ (lastOp' = "_get_exchange" /\ lastKey' = ex
                /\ Lower(ex) \in exchanges) =>
              /\ ~built'
              /\ upCalls' = 0
              /\ errOut' = ""
              /\ exchanges' = exchanges
        /\ (lastOp' = "_get_exchange" /\ lastKey' = ex /\ built'
                /\ errOut' = "") =>
              /\ Lower(ex) \notin exchanges
              /\ exchanges' = exchanges \cup {Lower(ex)}
        /\ (lastOp' = "close" /\ lastKey' = ex) =>
              Lower(ex) \notin exchanges'
        /\ lastOp' = "close_all" => exchanges' = {}
      ]_vars

\* The timestamps of window k a purge at `time` keeps.
LiveCount(reqs, k, time) ==
    Cardinality({i \in 1..Len(Window(reqs, k)) :
                    Window(reqs, k)[i] >= time - time_window})

\* The live timestamps of all the windows of the keys of S.
RECURSIVE SumLive(_, _, _)
SumLive(reqs, S, time) ==
    IF S = {} THEN 0
    ELSE LET k == CHOOSE x \in S : TRUE
         IN  LiveCount(reqs, k, time) + SumLive(reqs, S \ {k}, time)

\* C28: requests are recorded under the lower-case exchange identifier
\* only, and the requests admitted for one exchange inside one window,
\* whatever the letter case of the argument they came with, never number
\* more than max_requests.
C28_OneWindowPerExchange ==
    /\ \A k \in DOMAIN requests : k = Lower(k)
    /\ \A e \in SUPPORTED_EXCHANGES :
          SumLive(requests, {k \in DOMAIN requests : Lower(k) = e}, now)
              <= max_requests

\* C29: no request makes more than one upstream network call.
C29_OneUpstreamCall == upCalls <= 1

\* C30: a request the rate limiter rejects inside a provider operation
\* leaves the operation as RateLimitError and reaches the caller of the tool
\* under a label other than the label of a data-fetch failure.
C30_RejectionKeepsKind ==
    [][(lastOp' \in SyncTools \cup {"connector.get_ticker"} /\ raised') =>
            /\ errOut' = "RateLimitError"
            /\ toolOut' # "Data Fetch Error"
      ]_vars

\* C26 as worded: whenever the wrapper stores a fetch result under a key,
\* the key holds no live entry, so that between a store and the expiry of
\* the entry it made no other result is stored under the key, whether the
\* callers overlap or not.
C26_OneResultPerWindow ==
    [][\A t \in Threads :
        (/\ lastOp' = "async_wrapper.resume"
         /\ pc[t] = "fetching" /\ pc'[t] = "idle"
         /\ errOut' = "") =>
            \A i \in 1..Len(cache) :
                cache[i].key = FlightKey(tkey[t]) => now >= cache[i].expires
      ]_vars

\* C26, amended: a caller whose fetch overlapped with no other fetch for
\* its key stores its result under a key that holds no live entry; between
\* the store and the expiry of the entry, calls that do not overlap store no
\* other result under the key.
C26_OneResultPerWindowSequential ==
    [][\A t \in Threads :
        (/\ lastOp' = "async_wrapper.resume"
         /\ pc[t] = "fetching" /\ pc'[t] = "idle"
         /\ errOut' = ""
         /\ ~overlap[t]) =>
            /\ \A i \in 1..Len(cache) :
                  cache[i].key = FlightKey(tkey[t]) =>
                      now >= cache[i].expires
            /\ \E i \in 1..Len(cache') :
                  /\ cache'[i].key = FlightKey(tkey[t])
                  /\ cache'[i].expires = now + ttl
      ]_vars

\* C26 witness: the only caller there has been stored its result, and the
\* entry is live.
C26_Witness ==
    /\ lastOp = "async_wrapper.resume"
    /\ errOut = ""
    /\ getCalls = 1
    /\ \E i \in 1..Len(cache) :
          cache[i].key = FlightKey(lastKey) /\ now < cache[i].expires

\* C27: a caller that looks a key up while the fetch of another caller for
\* that key is in flight and nothing live is stored under it makes a fetch
\* of its own and records a request of its own with the rate limiter, and
\* unless the record or the provider fails its fetch is in flight too; a
\* caller whose fetch succeeds sets its own entry, whatever the key holds.
C27_NoSingleFlight ==
    [][/\ \A sym \in FlightSyms :
            (/\ lastOp' = "async_wrapper.lookup"
             /\ lastKey' = sym
             /\ \E u \in Threads : pc[u] = "fetching" /\ tkey[u] = sym
             /\ \A i \in 1..Len(cache) :
                   cache[i].key = FlightKey(sym) => now >= cache[i].expires)
            =>
                /\ fetched'
                /\ ~raised' =>
                      /\ Window(requests', FlightExchange) # <<>>
                      /\ LiveCount(requests', FlightExchange, now)
                            = LiveCount(requests, FlightExchange, now) + 1
                /\ errOut' = "" =>
                      \E t \in Threads :
                          /\ pc[t] = "idle"
                          /\ pc'[t] = "fetching"
                          /\ tkey'[t] = sym
       /\ \A t \in Threads :
            (/\ lastOp' = "async_wrapper.resume"
             /\ pc[t] = "fetching" /\ pc'[t] = "idle"
             /\ errOut' = "") =>
                /\ cache' # <<>>
                /\ cache'[Len(cache')].key = FlightKey(tkey[t])
                /\ cache'[Len(cache')].expires = now + ttl
      ]_vars

\* C27 witness: two fetches for one key are in flight, each with its own
\* request in the window of the exchange.
C27_Witness ==
    /\ \A t \in Threads : pc[t] = "fetching"
    /\ \A t, u \in Threads : tkey[t] = tkey[u]
    /\ Len(Window(requests, FlightExchange)) = 2
    /\ cache = <<>>

\* C31: get(k) adds one to hits and returns the stored value if and only if
\* k holds a live entry, whatever value the entry holds; otherwise it adds
\* one to misses and returns absent; the other counter and errors keep
\* their values.
C31_GetCountsLiveEntry ==
    [][\A k \in CKeys :
        (lastOp' = "cache_get" /\ lastKey' = k) =>
            IF \E i \in 1..Len(cache) :
                  cache[i].key = k /\ now < cache[i].expires
            THEN /\ stats'.hits = stats.hits + 1
                 /\ stats'.misses = stats.misses
                 /\ stats'.errors = stats.errors
                 /\ \E i \in 1..Len(cache) :
                       cache[i].key = k /\ retVal' = cache[i].value
            ELSE /\ stats'.misses = stats.misses + 1
                 /\ stats'.hits = stats.hits
                 /\ stats'.errors = stats.errors
                 /\ retVal' = NoneVal
      ]_vars

\* C32: no step of the cache manager, of build_key or of the clear_cache
\* tool lowers hits, misses or errors.
C32_CountersMonotonic ==
    [][/\ stats'.hits >= stats.hits
       /\ stats'.misses >= stats.misses
       /\ stats'.errors >= stats.errors
      ]_vars

\* C32 witness: the clear_cache tool has run with all three counters above
\* zero.
C32_Witness ==
    /\ lastOp = "clear_cache"
    /\ stats.hits >= 1
    /\ stats.misses >= 1
    /\ stats.errors >= 1

C34_StoreFaultCounted ==
    [][(lastOp' \in StoreOps /\ lastKey' = Faulty) =>
            /\ errOut' = "CacheError"
            /\ stats'.errors = stats.errors + 1
            /\ stats'.hits = stats.hits
            /\ stats'.misses = stats.misses
      ]_vars

\* C34 witness: the store has raised in a call made after a hit and a miss
\* were counted.
C34_Witness ==
    /\ lastOp \in StoreOps
    /\ lastKey = Faulty
    /\ errOut = "CacheError"
    /\ stats.errors = 1
    /\ stats.hits >= 1
    /\ stats.misses >= 1

\* C35: a set of a key that holds a live entry leaves the key with the
\* value set and a lifetime that ends ttl after the set, leaves the number
\* of live entries and every other live entry as they were and evicts
\* nothing, the store being full or not; every later get of the key before
\* that end returns the value, whenever the key was first set.
C35_OverwriteRestartsLifetime ==
    [][\A k \in CKeys :
        /\ (/\ lastOp' = "cache_set"
            /\ lastKey' = k
            /\ \E i \in 1..Len(cache) :
                  cache[i].key = k /\ now < cache[i].expires) =>
              /\ held'[k].at = now
              /\ \E i \in 1..Len(cache') :
                    /\ cache'[i].key = k
                    /\ cache'[i].value = held'[k].value
                    /\ cache'[i].expires = now + ttl
              /\ Len(cache') = Len(SelectSeq(cache, LAMBDA e : now < e.expires))
              /\ SelectSeq(cache', LAMBDA e : e.key # k)
                    = SelectSeq(cache,
                                LAMBDA e : e.key # k /\ now < e.expires)
              /\ evicted' = {}
        /\ (/\ lastOp' = "cache_get"
            /\ lastKey' = k
            /\ held[k].at >= 0
            /\ now < held[k].at + ttl) =>
              retVal' = held[k].value
      ]_vars

\* C35 witness: a full store one of whose keys was set again at a later
\* time than another entry, and nothing was evicted.
C35_Witness ==
    /\ lastOp = "cache_set"
    /\ beforeLen = max_size
    /\ Len(cache) = max_size
    /\ evicted = {}
    /\ held[lastKey].at = now
    /\ held[lastKey].value # NoneVal
    /\ \E i \in 1..Len(cache) : cache[i].expires < now + ttl

\* C36: the key build_key returned for a positional list and a map of
\* named values is returned for no other positional list and map, in
\* whatever order the names are supplied.
C36_KeysDistinct ==
    lastOp = "build_key" =>
        \A args2 \in ArgLists(MaxArgs) :
        \A S \in SUBSET Names :
        \A named2 \in [S -> ArgValues] :
            <<args2, named2>> # <<bkArgs, bkNamed>> =>
                \A o \in Orders(S) :
                    BuildKey(args2, Items(named2, o)) # keyOut

\* A window is in non-decreasing timestamp order.
InOrder(q) == \A i \in 1..Len(q) : \A j \in i..Len(q) : q[i] <= q[j]

\* The operations that purge the window of the key they are called on.
PurgingOps == {"check_limit", "record_request", "get_remaining_requests"}

\* C37: with a monotonic clock every key's window is in non-decreasing
\* timestamp order in every reachable state, and right after check_limit,
\* record_request or get_remaining_requests on a key every timestamp t of
\* that key's window satisfies now - time_window <= t <= now: the lower
\* bound is taken at the clock value the call's purge read (now), the upper
\* bound at the clock value the call ended with (now'), which differ only
\* when the clock moves between record_request's two reads.
C37_WindowOrderedAndRecent ==
    /\ [](\A k \in DOMAIN requests : InOrder(requests[k]))
    /\ [][\A k \in Keys :
            (lastOp' \in PurgingOps /\ lastKey' = k) =>
                \A i \in 1..Len(Window(requests', k)) :
                    /\ now - time_window <= Window(requests', k)[i]
                    /\ Window(requests', k)[i] <= now'
         ]_vars

\* C37 witness: one of the three operations has just run on a key whose
\* window holds a timestamp exactly time_window old, still counted, next to
\* a newer one.
C37_Witness ==
    /\ lastOp \in PurgingOps
    /\ Len(Window(requests, lastKey)) >= 2
    /\ Window(requests, lastKey)[1] = now - time_window
    /\ Window(requests, lastKey)[1]
         < Window(requests, lastKey)[Len(Window(requests, lastKey))]

\* C38: a call of a decorated operation (get_ticker, get_ohlcv) that finds
\* a live, non-None entry under its cache key is served from the cache and
\* leaves every rate-limiter window unchanged; it makes no upstream call and
\* returns the stored value.
C38_HitLeavesWindows ==
    [][\A op \in CachedOps, sym \in SymbolArgs, ex \in ExchangeArgs :
        (/\ lastOp' = "connector." \o op
         /\ lastKey' = BuildKeyStr(<<sym, ex>>)
         /\ GetItemValue(cache,
                WrapperKey(KeyPrefix(op), op, <<SelfStr, sym, ex>>), now)
              # NoneVal) =>
            /\ requests' = requests
            /\ upCalls' = 0
            /\ retVal' = GetItemValue(cache,
                   WrapperKey(KeyPrefix(op), op, <<SelfStr, sym, ex>>), now)
      ]_vars

\* C38 witness: a decorated operation has just been served from the cache
\* while the window of its exchange holds a timestamp.
C38_Witness ==
    /\ lastOp \in {"connector." \o op : op \in CachedOps}
    /\ ~fetched
    /\ retVal # NoneVal
    /\ \E k \in DOMAIN requests : Len(requests[k]) >= 1

\* C39: when a provider operation has passed record_request and the
\* provider construction or the upstream fetch then fails, the window of the
\* exchange key still ends with the timestamp the admission appended, after
\* the timestamps that survived the purge: the failed request consumes quota
\* like a successful one.
C39_AdmissionNotRolledBack ==
    [][\A tool \in SyncTools, sym \in SymbolArgs, ex \in ExchangeArgs :
        (/\ lastOp' = tool
         /\ lastKey' = BuildKeyStr(<<Upper(sym), ex>>)
         /\ ValidSymbol(sym) /\ ValidExchange(ex)
         /\ CheckLimitResult(requests, ex, now)
         /\ errOut' # "") =>
            /\ ~raised'
            /\ Window(requests', ex)
                 = Append(Window(CheckLimitState(requests, ex, now), ex),
                          now')
      ]_vars

\* C39 witness: a provider operation was admitted and then failed, and the
\* window of its exchange holds the timestamp of that request.
C39_Witness ==
    /\ lastOp \in SyncTools
    /\ errOut \in {"DataFetchError", "InvalidSymbolError"}
    /\ ~raised
    /\ \E ex \in ExchangeArgs :
          /\ Len(Window(requests, ex)) >= 1
          /\ Window(requests, ex)[Len(Window(requests, ex))] = now

\* The labels the texts returned by the except clauses of call_tool begin
\* with.
ErrorLabels ==
    {"Validation Error", "Exchange Error", "Data Fetch Error", "Error",
     "Unexpected Error"}

\* C40: call_tool never lets an exception escape: for every tool name, known
\* or unknown, a call in which an error is raised (validation, unsupported
\* exchange, data fetch, any other error) returns one text that begins with
\* an error label, a call without an error returns its result, and after a
\* failed call every tool can be called again.
C40_NoExceptionEscapes ==
    /\ [][lastOp' \in ToolNames =>
            IF errOut' # "" THEN toolOut' \in ErrorLabels
            ELSE toolOut' = "ok"
         ]_vars
    /\ []((lastOp \in ToolNames /\ errOut # "") =>
            /\ \A tool \in SyncTools :
                  ENABLED handle_sync(tool, "BTC/USDT", "binance")
            /\ ENABLED handle_clear_cache
            /\ \A name \in UnknownTools : ENABLED unknown_tool(name))

\* C40 witness: a call of an unknown tool ended in the text of the last
\* except clause, after earlier calls had left a request in the window of an
\* exchange.
C40_Witness ==
    /\ lastOp \in UnknownTools
    /\ errOut = "ValueError"
    /\ toolOut = "Unexpected Error"
    /\ \E k \in DOMAIN requests : Len(requests[k]) >= 1
====
